---- MODULE Spec2Model ----
(***************************************************************************)
(* Model of the Circles SDK path pipeline: the flow-matrix encoder         *)
(* (core/flow_matrix.py), the path rewriter and its conservation check     *)
(* (pathfinding/path_processor.py) and the token classification it uses    *)
(* (core/token_info.py).                                                   *)
(*                                                                         *)
(* An address string is a record [n, up]: n is the number the 40 hex       *)
(* digits denote and up tells whether the string has upper-case hex        *)
(* digits.  An integer string ("1000") is the sequence of its decimal      *)
(* digits.                                                                 *)
(***************************************************************************)
EXTENDS Integers, Sequences, FiniteSets, TLC

VARIABLES
    pc,          \* "start" before the call, then "returned" or "raised"
    op,          \* the function the behaviour calls
    coords,      \* pack_coordinates: the coordinate list
    from_addr,   \* create_flow_matrix: source address as the caller wrote it
    to_addr,     \* create_flow_matrix: destination address as the caller wrote it
    value,       \* create_flow_matrix: expected total (integer string)
    transfers,   \* create_flow_matrix: the TransferStep list
    path,        \* path functions: the PathfindingResult [max_flow, transfers]
    cache,       \* the TokenInfoCache [max_size, entries], entries oldest first
    token_info_map,  \* process_path_for_wrapped_tokens: its local token_info_map
    result,      \* what the call returned (None unless pc = "returned")
    raised,      \* the exception the call raised (None unless pc = "raised")
    client,      \* the PathfinderClient [session, closed] (None: no client)
    rpc,         \* _make_rpc_call in progress: its locals [attempt, last_exception]
    requests,    \* the number of session.post requests sent so far
    fetches,     \* the address lists get_token_info_batch was called with
    find_path_calls, \* the number of find_path calls the transfer made
    args,        \* the call's further arguments (None: it has none)
    batches      \* the classification batches sharing the cache (None: none)

vars == <<pc, op, coords, from_addr, to_addr, value, transfers, path, cache,
          token_info_map, result, raised, client, rpc, requests, fetches,
          find_path_calls, args, batches>>

None == [none |-> TRUE]

\* the pathfinder client and the two collaborators' logs
external == <<client, rpc, requests, fetches, find_path_calls>>

\* what only the calls with further arguments and the concurrent batches use
extra == <<args, batches>>

NoExtra == args = None /\ batches = None

\* no client, and nothing sent or fetched yet
NoExternal ==
    /\ client = None /\ rpc = None
    /\ requests = 0 /\ fetches = <<>> /\ find_path_calls = 0

----------------------------------------------------------------------------
(* Bounds of the model                                                     *)

MaxSteps == 2       \* longest step list drawn
MaxCoords == 3      \* longest coordinate list drawn

\* numeric values of the addresses drawn
AddrValues == {1, 2, 3}

\* coordinates drawn for pack_coordinates: both bytes used, the 16-bit edge,
\* and values that need more than 16 bits
CoordSamples == {0, 1, 255, 256, 258, 65535, 65536, 65793}

\* integer strings drawn as step values ("1", "02") and as expected totals
ValueStrings == {<<1>>, <<0, 2>>}
TotalStrings == {<<0, 1>>, <<2>>, <<3>>}

SeqsUpTo(S, n) == UNION {[1..k -> S] : k \in 0..n}

----------------------------------------------------------------------------
(* Strings                                                                 *)

\* str.lower() on an address string
lower(a) == [a EXCEPT !.up = FALSE]

\* int(addr, 16): the number the hex digits denote, whatever their case
int16(a) == a.n

\* int(s) on a string of decimal digits
RECURSIVE int(_)
int(s) ==
    IF Len(s) = 0 THEN 0
    ELSE 10 * int(SubSeq(s, 1, Len(s) - 1)) + s[Len(s)]

\* str(n) for n >= 0
RECURSIVE str(_)
str(n) == IF n < 10 THEN <<n>> ELSE str(n \div 10) \o <<n % 10>>

\* TransferStep(...): the address validator stores every address lower-cased
TransferStep(f, t, o, v) ==
    [from_address |-> lower(f), to_address |-> lower(t),
     token_owner |-> lower(o), value |-> v]

AddrStrings == [n : AddrValues, up : BOOLEAN]

\* every TransferStep over the drawn addresses and values
Steps ==
    {TransferStep(f, t, o, v) :
        f \in AddrStrings, t \in AddrStrings, o \in AddrStrings, v \in ValueStrings}

\* the steps that move a token, not the receiver's own, between two
\* different addresses
HopSteps ==
    {s \in Steps : s.from_address # s.to_address /\ s.token_owner # s.to_address}

----------------------------------------------------------------------------
(* core/flow_matrix.py                                                     *)

\* (coord >> 8) & 0xFF
HiByte(coord) == (coord \div 256) % 256

\* coord & 0xFF
LoByte(coord) == coord % 256

\* pack_coordinates writing the low byte first
pack_coordinates_lo_first(cs) ==
    [k \in 1..(2 * Len(cs)) |->
        IF k % 2 = 1 THEN LoByte(cs[(k + 1) \div 2]) ELSE HiByte(cs[k \div 2])]

pack_coordinates(cs) ==
    [k \in 1..(2 * Len(cs)) |->
        IF k % 2 = 1 THEN HiByte(cs[(k + 1) \div 2]) ELSE LoByte(cs[k \div 2])]

\* the set of addresses collected from the arguments
CollectAddresses(ts, f, t) ==
    {lower(f), lower(t)}
        \cup {lower(ts[i].from_address) : i \in 1..Len(ts)}
        \cup {lower(ts[i].to_address) : i \in 1..Len(ts)}
        \cup {lower(ts[i].token_owner) : i \in 1..Len(ts)}

\* the sort taking the largest address first
RECURSIVE SortedAddressesDescending(_)
SortedAddressesDescending(S) ==
    IF S = {} THEN <<>>
    ELSE LET m == CHOOSE a \in S : \A b \in S : int16(a) >= int16(b)
         IN  <<m>> \o SortedAddressesDescending(S \ {m})

\* sorted(addresses, key=lambda addr: int(addr, 16))
RECURSIVE SortedAddresses(_)
SortedAddresses(S) ==
    IF S = {} THEN <<>>
    ELSE LET m == CHOOSE a \in S : \A b \in S : int16(a) <= int16(b)
         IN  <<m>> \o SortedAddresses(S \ {m})

\* idx = {addr: i for i, addr in enumerate(sorted_addresses)}; indices from 0
IndexOf(vs, a) == (CHOOSE i \in 1..Len(vs) : vs[i] = a) - 1

transform_to_flow_vertices(ts, f, t) == SortedAddresses(CollectAddresses(ts, f, t))

\* the edges with the amount written anew from its number
FlowEdgesNormalised(ts, receiver) ==
    [i \in 1..Len(ts) |->
        [stream_sink_id |-> IF lower(ts[i].to_address) = receiver THEN 1 ELSE 0,
         amount |-> str(int(ts[i].value))]]

\* lines 94-101: one edge per step, terminal iff the step's to is the receiver
FlowEdges(ts, receiver) ==
    [i \in 1..Len(ts) |->
        [stream_sink_id |-> IF lower(ts[i].to_address) = receiver THEN 1 ELSE 0,
         amount |-> ts[i].value]]

\* lines 107-110: 0-based index of the last step whose to is the receiver, else -1
LastEdgeIndex(ts, receiver) ==
    LET hits == {i \in 1..Len(ts) : lower(ts[i].to_address) = receiver}
    IN  IF hits = {} THEN -1
        ELSE (CHOOSE i \in hits : \A j \in hits : j <= i) - 1

\* the fallback taking the first edge
FallbackIndexFirst(ts, receiver, edges) ==
    IF LastEdgeIndex(ts, receiver) # -1
    THEN LastEdgeIndex(ts, receiver)
    ELSE 0

\* lines 112-113: 0-based index of the edge that is forced terminal
FallbackIndex(ts, receiver, edges) ==
    IF LastEdgeIndex(ts, receiver) # -1
    THEN LastEdgeIndex(ts, receiver)
    ELSE Len(edges) - 1

\* line 104
HasTerminalEdge(edges) == \E i \in 1..Len(edges) : edges[i].stream_sink_id = 1

\* line 114 on a non-empty list: flow_edges[fallback_index].stream_sink_id = 1
\* (Python index k >= 0 is position k + 1 here)
ForceTerminal(edges, k) == [edges EXCEPT ![k + 1].stream_sink_id = 1]

\* lines 94-114 on a non-empty step list: the edges after the terminal marking
MarkedEdges(ts, receiver) ==
    IF HasTerminalEdge(FlowEdges(ts, receiver))
    THEN FlowEdges(ts, receiver)
    ELSE ForceTerminal(FlowEdges(ts, receiver),
                       FallbackIndex(ts, receiver, FlowEdges(ts, receiver)))

\* the indices of the intermediate edges instead
RECURSIVE TermEdgeIdsIntermediate(_)
TermEdgeIdsIntermediate(edges) ==
    IF Len(edges) = 0 THEN <<>>
    ELSE TermEdgeIdsIntermediate(SubSeq(edges, 1, Len(edges) - 1))
            \o (IF edges[Len(edges)].stream_sink_id = 0 THEN <<Len(edges) - 1>> ELSE <<>>)

\* the indices of the terminal edges, descending
RECURSIVE TermEdgeIdsDescending(_)
TermEdgeIdsDescending(edges) ==
    IF Len(edges) = 0 THEN <<>>
    ELSE (IF edges[Len(edges)].stream_sink_id = 1 THEN <<Len(edges) - 1>> ELSE <<>>)
            \o TermEdgeIdsDescending(SubSeq(edges, 1, Len(edges) - 1))

\* lines 117-118: 0-based indices of the terminal edges, ascending
RECURSIVE TermEdgeIds(_)
TermEdgeIds(edges) ==
    IF Len(edges) = 0 THEN <<>>
    ELSE TermEdgeIds(SubSeq(edges, 1, Len(edges) - 1))
            \o (IF edges[Len(edges)].stream_sink_id = 1 THEN <<Len(edges) - 1>> ELSE <<>>)

\* the triples written as (from, to, token_owner)
RECURSIVE StepCoordsOwnerLast(_, _)
StepCoordsOwnerLast(ts, vs) ==
    IF Len(ts) = 0 THEN <<>>
    ELSE LET n == Len(ts)
         IN  StepCoordsOwnerLast(SubSeq(ts, 1, n - 1), vs)
                \o <<IndexOf(vs, lower(ts[n].from_address)),
                     IndexOf(vs, lower(ts[n].to_address)),
                     IndexOf(vs, lower(ts[n].token_owner))>>

\* lines 128-132: the coordinate triple (token_owner, from, to) of every step
RECURSIVE StepCoords(_, _)
StepCoords(ts, vs) ==
    IF Len(ts) = 0 THEN <<>>
    ELSE LET n == Len(ts)
         IN  StepCoords(SubSeq(ts, 1, n - 1), vs)
                \o <<IndexOf(vs, lower(ts[n].token_owner)),
                     IndexOf(vs, lower(ts[n].from_address)),
                     IndexOf(vs, lower(ts[n].to_address))>>

\* the sum taken over every edge, terminal or not
RECURSIVE TerminalSumAllEdges(_)
TerminalSumAllEdges(edges) ==
    IF Len(edges) = 0 THEN 0
    ELSE TerminalSumAllEdges(SubSeq(edges, 1, Len(edges) - 1)) + int(edges[Len(edges)].amount)

\* lines 138-139: sum(int(edge.amount) for edge in flow_edges if edge.stream_sink_id == 1)
RECURSIVE TerminalSum(_)
TerminalSum(edges) ==
    IF Len(edges) = 0 THEN 0
    ELSE TerminalSum(SubSeq(edges, 1, Len(edges) - 1))
            + (IF edges[Len(edges)].stream_sink_id = 1 THEN int(edges[Len(edges)].amount) ELSE 0)

\* the exception of lines 141-143; its message carries both numbers
TerminalSumError(terminal_sum, expected) ==
    [type |-> "ValueError", terminal_sum |-> terminal_sum, expected |-> expected]

\* create_flow_matrix: [returned, raised], one of them None
create_flow_matrix(f, t, v, ts) ==
    LET sender == lower(f)
        receiver == lower(t)
        flow_vertices == transform_to_flow_vertices(ts, sender, receiver)
        edges0 == FlowEdges(ts, receiver)
    IN  IF ~HasTerminalEdge(edges0) /\ Len(edges0) = 0
        THEN \* flow_edges[-1] on an empty list
             [returned |-> None, raised |-> [type |-> "IndexError"]]
        ELSE
        LET flow_edges == MarkedEdges(ts, receiver)
            streams == <<[source_coordinate |-> IndexOf(flow_vertices, sender),
                          flow_edge_ids |-> TermEdgeIds(flow_edges),
                          data |-> <<>>]>>
            packed_coordinates == pack_coordinates(StepCoords(ts, flow_vertices))
            expected == int(v)
            terminal_sum == TerminalSum(flow_edges)
        IN  IF terminal_sum # expected
            THEN [returned |-> None, raised |-> TerminalSumError(terminal_sum, expected)]
            ELSE [returned |->
                    [flow_vertices |-> flow_vertices,
                     flow_edges |-> flow_edges,
                     streams |-> streams,
                     packed_coordinates |-> packed_coordinates,
                     source_coordinate |-> IndexOf(flow_vertices, sender)],
                  raised |-> None]

----------------------------------------------------------------------------
(* The encoder called on drawn arguments                                   *)

NoFlowArgs ==
    /\ from_addr = None /\ to_addr = None /\ value = None /\ transfers = None

NoPathArgs ==
    /\ path = None /\ cache = None /\ token_info_map = None

\* the position a finished call leaves the behaviour in
Outcome(r) == IF r.raised = None THEN "returned" ELSE "raised"

InitFlow ==
    /\ pc = "start"
    /\ op = "create_flow_matrix"
    /\ coords = None
    /\ \E u \in BOOLEAN :
          /\ from_addr \in {a \in AddrStrings : a.up = u}
          /\ to_addr \in {a \in AddrStrings : a.up = u}
    /\ value \in TotalStrings
    /\ transfers \in SeqsUpTo(HopSteps, MaxSteps)
    /\ NoPathArgs
    /\ result = None
    /\ raised = None
    /\ NoExternal
    /\ NoExtra

CreateFlowMatrix ==
    /\ pc = "start"
    /\ op = "create_flow_matrix"
    /\ LET r == create_flow_matrix(from_addr, to_addr, value, transfers)
       IN  /\ result' = r.returned
           /\ raised' = r.raised
           /\ pc' = Outcome(r)
    /\ UNCHANGED <<op, coords, from_addr, to_addr, value, transfers, path, cache, token_info_map>>
    /\ UNCHANGED external
    /\ UNCHANGED extra

NextFlow == CreateFlowMatrix

SpecFlow == InitFlow /\ [][NextFlow]_vars

----------------------------------------------------------------------------
(* pack_coordinates called on a drawn coordinate list                      *)

InitPack ==
    /\ pc = "start"
    /\ op = "pack_coordinates"
    /\ coords \in SeqsUpTo(CoordSamples, MaxCoords)
    /\ NoFlowArgs
    /\ NoPathArgs
    /\ result = None
    /\ raised = None
    /\ NoExternal
    /\ NoExtra

PackCoordinates ==
    /\ pc = "start"
    /\ op = "pack_coordinates"
    /\ result' = pack_coordinates(coords)
    /\ raised' = None
    /\ pc' = "returned"
    /\ UNCHANGED <<op, coords, from_addr, to_addr, value, transfers, path, cache, token_info_map>>
    /\ UNCHANGED external
    /\ UNCHANGED extra

NextPack == PackCoordinates

SpecPack == InitPack /\ [][NextPack]_vars

----------------------------------------------------------------------------
(* Python dicts keep insertion order: a dict is the sequence of its items  *)
(* [k, v], oldest first.                                                   *)

HasKey(d, k) == \E i \in 1..Len(d) : d[i].k = k

\* d.get(k, default)
Get(d, k, default) ==
    IF HasKey(d, k) THEN d[CHOOSE i \in 1..Len(d) : d[i].k = k].v ELSE default

\* d[k] = v: an existing key keeps its place, a new one goes last
Put(d, k, v) ==
    IF HasKey(d, k)
    THEN [i \in 1..Len(d) |-> IF d[i].k = k THEN [k |-> k, v |-> v] ELSE d[i]]
    ELSE Append(d, [k |-> k, v |-> v])

----------------------------------------------------------------------------
(* pathfinding/path_processor.py: the conservation check                   *)

\* line 232
Senders(ts) == {lower(ts[i].from_address) : i \in 1..Len(ts)}

\* line 233
Receivers(ts) == {lower(ts[i].to_address) : i \in 1..Len(ts)}

\* the test that accepts any candidate as long as there is one
NoSourceOrSink(sources, sinks) == sources = {} \/ sinks = {}

\* line 240: len(sources) != 1 or len(sinks) != 1
AmbiguousSourceOrSink(sources, sinks) ==
    Cardinality(sources) # 1 \/ Cardinality(sinks) # 1

\* _get_source_and_sink: [raised, source, sink]
get_source_and_sink(p) ==
    LET sources == Senders(p.transfers) \ Receivers(p.transfers)
        sinks == Receivers(p.transfers) \ Senders(p.transfers)
    IN  IF AmbiguousSourceOrSink(sources, sinks)
        THEN [raised |-> [type |-> "PathfindingError",
                          message |-> "Could not determine unique source / sink"],
              source |-> None, sink |-> None]
        ELSE [raised |-> None,
              source |-> CHOOSE a \in sources : TRUE,
              sink |-> CHOOSE a \in sinks : TRUE]

\* _compute_netted_flow: the dict address -> net flow, in insertion order
RECURSIVE compute_netted_flow(_)
compute_netted_flow(ts) ==
    IF Len(ts) = 0 THEN <<>>
    ELSE LET n == Len(ts)
             amount == int(ts[n].value)
             from == lower(ts[n].from_address)
             to == lower(ts[n].to_address)
             d0 == compute_netted_flow(SubSeq(ts, 1, n - 1))
             d1 == Put(d0, from, Get(d0, from, 0) - amount)
         IN  Put(d1, to, Get(d1, to, 0) + amount)

\* the check of one vertex that lets any intermediate balance pass
MismatchAtEndsOnly(addr, balance, source, sink) ==
    IF addr = source /\ balance >= 0
    THEN [type |-> "PathfindingError", message |-> "Source should be net negative",
          addr |-> addr, balance |-> balance]
    ELSE IF addr = sink /\ balance <= 0
    THEN [type |-> "PathfindingError", message |-> "Sink should be net positive",
          addr |-> addr, balance |-> balance]
    ELSE None

\* the check of one vertex that lets an intermediate deficit pass
MismatchSurplusOnly(addr, balance, source, sink) ==
    IF addr = source /\ balance >= 0
    THEN [type |-> "PathfindingError", message |-> "Source should be net negative",
          addr |-> addr, balance |-> balance]
    ELSE IF addr = sink /\ balance <= 0
    THEN [type |-> "PathfindingError", message |-> "Sink should be net positive",
          addr |-> addr, balance |-> balance]
    ELSE IF addr # source /\ addr # sink /\ balance > 0
    THEN [type |-> "PathfindingError", message |-> "Vertex is unbalanced",
          addr |-> addr, balance |-> balance]
    ELSE None

\* lines 205-216: the exception one item of net_flow raises, or None
Mismatch(addr, balance, source, sink) ==
    IF addr = source /\ balance >= 0
    THEN [type |-> "PathfindingError", message |-> "Source should be net negative",
          addr |-> addr, balance |-> balance]
    ELSE IF addr = sink /\ balance <= 0
    THEN [type |-> "PathfindingError", message |-> "Sink should be net positive",
          addr |-> addr, balance |-> balance]
    ELSE IF addr # source /\ addr # sink /\ balance # 0
    THEN [type |-> "PathfindingError", message |-> "Vertex is unbalanced",
          addr |-> addr, balance |-> balance]
    ELSE None

\* lines 204-216: the first item, in dict order, that raises
RECURSIVE FirstMismatch(_, _, _)
FirstMismatch(items, source, sink) ==
    IF items = <<>> THEN None
    ELSE LET e == Mismatch(Head(items).k, Head(items).v, source, sink)
         IN  IF e # None THEN e ELSE FirstMismatch(Tail(items), source, sink)

\* assert_no_netted_flow_mismatch: the exception raised, or None
assert_no_netted_flow_mismatch(p) ==
    LET ss == get_source_and_sink(p)
    IN  IF ss.raised # None THEN ss.raised
        ELSE FirstMismatch(compute_netted_flow(p.transfers), ss.source, ss.sink)

\* max_flow strings drawn for a path
MaxFlowStrings == {<<2>>, <<0, 3>>}

InitCheck ==
    /\ pc = "start"
    /\ op = "assert_no_netted_flow_mismatch"
    /\ coords = None
    /\ NoFlowArgs
    /\ path \in [max_flow : MaxFlowStrings, transfers : SeqsUpTo(Steps, MaxSteps)]
    /\ cache = None
    /\ token_info_map = None
    /\ result = None
    /\ raised = None
    /\ NoExternal
    /\ NoExtra

AssertNoNettedFlowMismatch ==
    /\ pc = "start"
    /\ op = "assert_no_netted_flow_mismatch"
    /\ LET e == assert_no_netted_flow_mismatch(path)
       IN  /\ raised' = e
           /\ pc' = IF e = None THEN "returned" ELSE "raised"
    /\ result' = None
    /\ UNCHANGED <<op, coords, from_addr, to_addr, value, transfers, path, cache, token_info_map>>
    /\ UNCHANGED external
    /\ UNCHANGED extra

NextCheck == AssertNoNettedFlowMismatch

SpecCheck == InitCheck /\ [][NextCheck]_vars

----------------------------------------------------------------------------
(* core/token_info.py                                                      *)

CRC_V2_REGISTER_HUMAN == "CrcV2_RegisterHuman"
CRC_V2_ERC20_WRAPPER_INFLATIONARY == "CrcV2_ERC20WrapperDeployed_Inflationary"
CRC_V2_ERC20_WRAPPER_DEMURRAGED == "CrcV2_ERC20WrapperDeployed_Demurraged"

\* TokenInfoRow(...): token and token_owner are stored lower-cased; timestamp,
\* transaction_hash and version are carried along and never read
TokenInfoRow(token_type, token, token_owner) ==
    [type |-> token_type, token |-> lower(token), token_owner |-> lower(token_owner)]

\* TokenInfoRow.is_wrapped: type.startswith("CrcV2_ERC20WrapperDeployed")
is_wrapped(info) ==
    info.type \in {CRC_V2_ERC20_WRAPPER_INFLATIONARY, CRC_V2_ERC20_WRAPPER_DEMURRAGED}

\* TokenInfoCache.get
cache_get(c, token_address) == Get(c.entries, lower(token_address), None)

\* the set that never evicts
cache_set_unbounded(c, token_address, info) ==
    [c EXCEPT !.entries = Put(c.entries, lower(token_address), info)]

\* TokenInfoCache.set: a full cache first drops its oldest entry
cache_set(c, token_address, info) ==
    LET kept == IF Len(c.entries) >= c.max_size THEN Tail(c.entries) ELSE c.entries
    IN  [c EXCEPT !.entries = Put(kept, lower(token_address), info)]

\* TokenInfoCache.set_batch
RECURSIVE cache_set_batch(_, _)
cache_set_batch(c, infos) ==
    IF infos = <<>> THEN c
    ELSE cache_set_batch(cache_set(c, Head(infos).token, Head(infos)), Tail(infos))

\* _infer_token_type
infer_token_type(token_address) == CRC_V2_REGISTER_HUMAN

\* get_token_info_batch when the session does not fail: one row per address
get_token_info_batch(token_addresses) ==
    [i \in 1..Len(token_addresses) |->
        TokenInfoRow(infer_token_type(token_addresses[i]),
                     token_addresses[i], token_addresses[i])]

\* token_info_map.get(addr); the map is a function from addresses to rows
MapGet(m, addr) == IF addr \in DOMAIN m THEN m[addr] ELSE None

\* lines 104-106: the distinct token owners of the path
UniqueAddresses(p) == {lower(p.transfers[i].token_owner) : i \in 1..Len(p.transfers)}

\* the lookup that finds nothing in the cache
CacheHitsNone(c, addrs) == <<>>

\* lines 110-118: the rows found in the cache (none without a cache)
CacheHits(c, addrs) ==
    IF c = None THEN <<>>
    ELSE [a \in {b \in addrs : cache_get(c, b) # None} |-> cache_get(c, a)]

\* the orders in which a Python set may be iterated
Orderings(S) ==
    {f \in [1..Cardinality(S) -> S] : \A i, j \in 1..Cardinality(S) : f[i] = f[j] => i = j}

\* lines 123-124: token_info_map[info.token] = info for every fetched row
RECURSIVE WithRows(_, _)
WithRows(m, infos) ==
    IF infos = <<>> THEN m
    ELSE WithRows((Head(infos).token :> Head(infos)) @@ m, Tail(infos))

\* raise TokenError(f"Failed to fetch token info batch: ...")
TokenError == [type |-> "TokenError", message |-> "Failed to fetch token info batch"]

\* the classification that returns the cache hits alone when the fetch fails
get_token_info_map_swallowing(p, c) ==
    LET hits == CacheHits(c, UniqueAddresses(p))
        missing == UniqueAddresses(p) \ DOMAIN hits
    IN  {[raised |-> None, token_info_map |-> hits, cache |-> c,
          fetched |-> IF missing = {} THEN <<>> ELSE <<addresses_to_fetch>>] :
            addresses_to_fetch \in Orderings(missing)}

\* get_token_info_map_from_path(config, p, c): what a call may do.  Each
\* outcome gives the exception raised (or None), the local token_info_map
\* (returned unless raised), the cache afterwards and the argument lists of
\* the get_token_info_batch calls made.  The fetch is made in some order of
\* the missing addresses and either returns its rows or raises TokenError.
get_token_info_map_from_path(p, c) ==
    LET hits == CacheHits(c, UniqueAddresses(p))
        missing == UniqueAddresses(p) \ DOMAIN hits
    IN  IF missing = {}
        THEN {[raised |-> None, token_info_map |-> hits, cache |-> c, fetched |-> <<>>]}
        ELSE UNION {
                LET batch_info == get_token_info_batch(addresses_to_fetch)
                IN  {[raised |-> TokenError, token_info_map |-> hits, cache |-> c,
                      fetched |-> <<addresses_to_fetch>>],
                     [raised |-> None, token_info_map |-> WithRows(hits, batch_info),
                      cache |-> IF c = None THEN c ELSE cache_set_batch(c, batch_info),
                      fetched |-> <<addresses_to_fetch>>]} :
                addresses_to_fetch \in Orderings(missing)}

\* get_wrapped_token_totals_from_path: dict wrapper -> [total, type], path order
RECURSIVE get_wrapped_token_totals_from_path(_, _)
get_wrapped_token_totals_from_path(ts, m) ==
    IF Len(ts) = 0 THEN <<>>
    ELSE LET n == Len(ts)
             d0 == get_wrapped_token_totals_from_path(SubSeq(ts, 1, n - 1), m)
             token_addr == lower(ts[n].token_owner)
             info == MapGet(m, token_addr)
         IN  IF info # None /\ is_wrapped(info)
             THEN LET cur == Get(d0, token_addr, [total |-> 0, type |-> info.type])
                  IN  Put(d0, token_addr,
                          [total |-> cur.total + int(ts[n].value), type |-> cur.type])
             ELSE d0

\* the placeholder conversions
atto_circles_to_atto_static_circles(amount) == amount
atto_static_circles_to_atto_circles(amount) == amount

\* get_expected_unwrapped_token_totals: dict wrapper -> [amount, avatar]
RECURSIVE get_expected_unwrapped_token_totals(_, _)
get_expected_unwrapped_token_totals(wrapped_totals, m) ==
    IF Len(wrapped_totals) = 0 THEN <<>>
    ELSE LET n == Len(wrapped_totals)
             d0 == get_expected_unwrapped_token_totals(SubSeq(wrapped_totals, 1, n - 1), m)
             wrapper_addr == wrapped_totals[n].k
             total == wrapped_totals[n].v.total
             token_type == wrapped_totals[n].v.type
             info == MapGet(m, lower(wrapper_addr))
             is_demurraged == token_type = CRC_V2_ERC20_WRAPPER_DEMURRAGED
             is_inflationary == token_type = CRC_V2_ERC20_WRAPPER_INFLATIONARY
             unwrap_amount ==
                IF is_demurraged THEN total
                ELSE IF is_inflationary THEN atto_circles_to_atto_static_circles(total)
                ELSE total
             available_after_unwrap ==
                IF is_demurraged THEN unwrap_amount
                ELSE atto_static_circles_to_atto_circles(unwrap_amount)
         IN  IF info = None THEN d0
             ELSE Put(d0, wrapper_addr,
                      [amount |-> available_after_unwrap, avatar |-> info.token_owner])

----------------------------------------------------------------------------
(* pathfinding/path_processor.py: the rewriter                             *)

\* the rewriting that gives every step the first wrapper's avatar
replace_wrapped_tokens_all(p, unwrapped_totals) ==
    [max_flow |-> p.max_flow,
     transfers |->
        [i \in 1..Len(p.transfers) |->
            LET t == p.transfers[i]
            IN  TransferStep(t.from_address, t.to_address,
                             IF Len(unwrapped_totals) > 0
                             THEN unwrapped_totals[1].v.avatar ELSE t.token_owner,
                             t.value)]]

\* replace_wrapped_tokens
replace_wrapped_tokens(p, unwrapped_totals) ==
    [max_flow |-> p.max_flow,
     transfers |->
        [i \in 1..Len(p.transfers) |->
            LET t == p.transfers[i]
                has_unwrap == HasKey(unwrapped_totals, lower(t.token_owner))
                token_owner ==
                    IF has_unwrap
                    THEN Get(unwrapped_totals, lower(t.token_owner), None).avatar
                    ELSE t.token_owner
            IN  TransferStep(t.from_address, t.to_address, token_owner, t.value)]]

\* DENOM = 10^12 = LimbBase * LimbBase and retain_bps = 999_999_999_999 =
\* RetainLimb * LimbBase + RetainLimb: the two numbers as base-10^6 limbs
LimbBase == 1000000
RetainLimb == 999999

\* line 90: (int(transfer.value) * retain_bps) // DENOM, exact for the values
\* drawn (the product is taken limb by limb)
ScaledValue(v) == (v * RetainLimb + (v * RetainLimb) \div LimbBase) \div LimbBase

\* the scaling that keeps the steps scaled to 0
ScaledStepsKeepZero(ts) ==
    [i \in 1..Len(ts) |->
        [from_address |-> ts[i].from_address, to_address |-> ts[i].to_address,
         token_owner |-> ts[i].token_owner, value |-> str(ScaledValue(int(ts[i].value)))]]

\* lines 89-103: the steps that survive the scaling, in path order
RECURSIVE ScaledSteps(_)
ScaledSteps(ts) ==
    IF Len(ts) = 0 THEN <<>>
    ELSE LET n == Len(ts)
             scaled_value == ScaledValue(int(ts[n].value))
         IN  ScaledSteps(SubSeq(ts, 1, n - 1))
                \o (IF scaled_value = 0 THEN <<>>
                    ELSE <<[from_address |-> ts[n].from_address,
                            to_address |-> ts[n].to_address,
                            token_owner |-> ts[n].token_owner,
                            value |-> str(scaled_value)]>>)

\* lines 105-107: incoming_to_sink, built from the surviving steps
RECURSIVE IncomingToSink(_)
IncomingToSink(scaled) ==
    IF Len(scaled) = 0 THEN <<>>
    ELSE LET n == Len(scaled)
             d0 == IncomingToSink(SubSeq(scaled, 1, n - 1))
             to == lower(scaled[n].to_address)
         IN  Put(d0, to, Get(d0, to, 0) + int(scaled[n].value))

\* the to of the first surviving step, sender or not
FirstReceiver(scaled) ==
    IF Len(scaled) = 0 THEN None ELSE lower(scaled[1].to_address)

\* lines 110-115: the to of the first surviving step that is no sender, or None
FirstSink(scaled) ==
    LET senders == {lower(scaled[i].from_address) : i \in 1..Len(scaled)}
        hits == {i \in 1..Len(scaled) : lower(scaled[i].to_address) \notin senders}
    IN  IF hits = {} THEN None
        ELSE lower(scaled[CHOOSE i \in hits : \A j \in hits : i <= j].to_address)

\* the shrinking that reports the input max_flow scaled
shrink_path_values_scaled_max_flow(p) ==
    LET scaled == ScaledSteps(p.transfers)
    IN  [max_flow |-> str(ScaledValue(int(p.max_flow))),
         transfers |->
            [i \in 1..Len(scaled) |->
                TransferStep(scaled[i].from_address, scaled[i].to_address,
                             scaled[i].token_owner, scaled[i].value)]]

\* shrink_path_values with the default retain_bps
shrink_path_values(p) ==
    LET scaled == ScaledSteps(p.transfers)
        sink == FirstSink(scaled)
        max_flow == IF sink # None THEN Get(IncomingToSink(scaled), sink, 0) ELSE 0
    IN  [max_flow |-> str(max_flow),
         transfers |->
            [i \in 1..Len(scaled) |->
                TransferStep(scaled[i].from_address, scaled[i].to_address,
                             scaled[i].token_owner, scaled[i].value)]]

\* the test that shrinks every path
AlwaysInflationary(wrapped_totals) == TRUE

\* the test that shrinks a path as soon as it uses a wrapper of either kind
HasAnyWrapper(wrapped_totals) == Len(wrapped_totals) > 0

\* lines 176-179: any wrapper of the path is inflationary
HasInflationaryWrapper(wrapped_totals) ==
    \E i \in 1..Len(wrapped_totals) :
        wrapped_totals[i].v.type = CRC_V2_ERC20_WRAPPER_INFLATIONARY

\* lines 166-186: the rewriting once token_info_map is known
RewrittenPath(p, m) ==
    LET wrapped_totals == get_wrapped_token_totals_from_path(p.transfers, m)
        unwrapped_totals == get_expected_unwrapped_token_totals(wrapped_totals, m)
        path_unwrapped == replace_wrapped_tokens(p, unwrapped_totals)
    IN  IF HasInflationaryWrapper(wrapped_totals)
        THEN [path |-> shrink_path_values(path_unwrapped), had_inflationary_wrapper |-> TRUE]
        ELSE [path |-> path_unwrapped, had_inflationary_wrapper |-> FALSE]

----------------------------------------------------------------------------
(* The rewriter called on a drawn path with a drawn cache                  *)

CacheSize == 2      \* max_size of the cache drawn

Addr(n) == [n |-> n, up |-> FALSE]

\* rows a caller may have cached: an avatar, its inflationary wrapper and
\* a demurraged wrapper
CachedRows ==
    {TokenInfoRow(CRC_V2_REGISTER_HUMAN, Addr(1), Addr(1)),
     TokenInfoRow(CRC_V2_ERC20_WRAPPER_INFLATIONARY, Addr(2), Addr(1)),
     TokenInfoRow(CRC_V2_ERC20_WRAPPER_DEMURRAGED, Addr(3), Addr(2))}

\* the caches of capacity CacheSize filled with some of these rows, in any order
Caches ==
    {[max_size |-> CacheSize, entries |-> [i \in 1..Len(rs) |-> [k |-> rs[i].token, v |-> rs[i]]]] :
        rs \in {q \in SeqsUpTo(CachedRows, CacheSize) :
                    \A i, j \in 1..Len(q) : q[i] = q[j] => i = j}}

InitRewrite ==
    /\ pc = "start"
    /\ op = "process_path_for_wrapped_tokens"
    /\ coords = None
    /\ NoFlowArgs
    /\ path \in [max_flow : MaxFlowStrings, transfers : SeqsUpTo(HopSteps, MaxSteps)]
    /\ cache \in Caches \cup {None}
    /\ token_info_map = None
    /\ result = None
    /\ raised = None
    /\ NoExternal
    /\ NoExtra

\* process_path_for_wrapped_tokens: the classification batch (lookup, fetch,
\* cache insert) and the rewriting
ProcessPathForWrappedTokens ==
    /\ pc = "start"
    /\ op = "process_path_for_wrapped_tokens"
    /\ \E o \in get_token_info_map_from_path(path, cache) :
          /\ token_info_map' = o.token_info_map
          /\ cache' = o.cache
          /\ fetches' = fetches \o o.fetched
          /\ raised' = o.raised
          /\ result' = IF o.raised = None THEN RewrittenPath(path, o.token_info_map) ELSE None
          /\ pc' = IF o.raised = None THEN "returned" ELSE "raised"
    /\ UNCHANGED <<op, coords, from_addr, to_addr, value, transfers, path>>
    /\ UNCHANGED <<client, rpc, requests, find_path_calls>>
    /\ UNCHANGED extra

NextRewrite == ProcessPathForWrappedTokens

SpecRewrite == InitRewrite /\ [][NextRewrite]_vars

----------------------------------------------------------------------------
(* replace_wrapped_tokens called on a drawn path and drawn unwrapped totals *)

\* steps over two routes, every token owner and both value strings
ReplaceSteps ==
    {TransferStep(Addr(1), Addr(2), Addr(o), v) : o \in AddrValues, v \in ValueStrings}
        \cup {TransferStep(Addr(2), Addr(3), Addr(1), v) : v \in ValueStrings}

\* the dicts get_expected_unwrapped_token_totals may give: wrapper address ->
\* (amount, avatar), the avatar one of the path's addresses or another one
UnwrappedTotals ==
    {d \in SeqsUpTo([k : {Addr(n) : n \in AddrValues},
                     v : [amount : {3}, avatar : {Addr(1), Addr(4)}]], 2) :
        \A i, j \in 1..Len(d) : d[i].k = d[j].k => i = j}

InitReplace ==
    /\ pc = "start"
    /\ op = "replace_wrapped_tokens"
    /\ coords = None
    /\ NoFlowArgs
    /\ path \in [max_flow : MaxFlowStrings, transfers : SeqsUpTo(ReplaceSteps, MaxSteps)]
    /\ cache = None
    /\ token_info_map = None
    /\ result = None
    /\ raised = None
    /\ NoExternal
    /\ args \in [unwrapped_totals : UnwrappedTotals]
    /\ batches = None

\* replace_wrapped_tokens(path, unwrapped_totals)
ReplaceWrappedTokens ==
    /\ pc = "start"
    /\ op = "replace_wrapped_tokens"
    /\ result' = replace_wrapped_tokens(path, args.unwrapped_totals)
    /\ pc' = "returned"
    /\ UNCHANGED <<op, coords, from_addr, to_addr, value, transfers, path, cache,
                   token_info_map, raised>>
    /\ UNCHANGED external
    /\ UNCHANGED extra

NextReplace == ReplaceWrappedTokens

SpecReplace == InitReplace /\ [][NextReplace]_vars

----------------------------------------------------------------------------

(* shrink_path_values called on a drawn path                               *)

\* step values as the pathfinder may write them: 0, 1, 2 with a leading
\* zero, and 100
ShrinkValueStrings == {<<0>>, <<1>>, <<0, 2>>, <<1, 0, 0>>}

ShrinkSteps ==
    {TransferStep(Addr(f), Addr(t), Addr(o), v) :
        f \in AddrValues, t \in AddrValues, o \in AddrValues, v \in ShrinkValueStrings}

InitShrink ==
    /\ pc = "start"
    /\ op = "shrink_path_values"
    /\ coords = None
    /\ NoFlowArgs
    /\ path \in [max_flow : {<<2>>},
                 transfers : SeqsUpTo({s \in ShrinkSteps : s.from_address # s.to_address
                                                            /\ s.token_owner # s.to_address},
                                      MaxSteps)]
    /\ cache = None
    /\ token_info_map = None
    /\ result = None
    /\ raised = None
    /\ NoExternal
    /\ NoExtra

\* shrink_path_values(path)
ShrinkPathValues ==
    /\ pc = "start"
    /\ op = "shrink_path_values"
    /\ result' = shrink_path_values(path)
    /\ pc' = "returned"
    /\ UNCHANGED <<op, coords, from_addr, to_addr, value, transfers, path, cache,
                   token_info_map, raised>>
    /\ UNCHANGED external
    /\ UNCHANGED extra

NextShrink == ShrinkPathValues

SpecShrink == InitShrink /\ [][NextShrink]_vars

----------------------------------------------------------------------------

(* shrink_path_values called on paths long enough to split a flow          *)

MaxSplitSteps == 3   \* longest step list drawn here

\* step values: 1 is scaled to 0, 2 to 1 and 4 to 3
SplitValueStrings == {<<1>>, <<2>>, <<4>>}

\* steps between two different addresses, in the sender's own token
SplitSteps ==
    {TransferStep(Addr(f), Addr(t), Addr(f), v) :
        f \in AddrValues, t \in AddrValues, v \in SplitValueStrings}

InitSplit ==
    /\ pc = "start"
    /\ op = "shrink_path_values"
    /\ coords = None
    /\ NoFlowArgs
    /\ path \in [max_flow : {<<4>>},
                 transfers : SeqsUpTo({s \in SplitSteps : s.from_address # s.to_address},
                                      MaxSplitSteps)]
    /\ cache = None
    /\ token_info_map = None
    /\ result = None
    /\ raised = None
    /\ NoExternal
    /\ NoExtra

SpecSplit == InitSplit /\ [][NextShrink]_vars

----------------------------------------------------------------------------

(* get_token_info_map_from_path called on a drawn path with a drawn cache  *)

\* token owners drawn: the three addresses a cache may hold and one it never holds
ClassifyOwners == AddrValues \cup {4}

\* the steps of the paths classified: only the token owner matters
ClassifySteps == {TransferStep(Addr(1), Addr(2), Addr(o), <<1>>) : o \in ClassifyOwners}

\* caches of every capacity from 1 to CacheSize holding some of CachedRows
ClassifyCaches ==
    {[max_size |-> n, entries |-> [i \in 1..Len(rs) |-> [k |-> rs[i].token, v |-> rs[i]]]] :
        n \in 1..CacheSize,
        rs \in {q \in SeqsUpTo(CachedRows, CacheSize) :
                    \A i, j \in 1..Len(q) : q[i] = q[j] => i = j}}

InitClassify ==
    /\ pc = "start"
    /\ op = "get_token_info_map_from_path"
    /\ coords = None
    /\ NoFlowArgs
    /\ path \in [max_flow : {<<2>>}, transfers : SeqsUpTo(ClassifySteps, MaxSteps)]
    /\ cache \in {c \in ClassifyCaches : Len(c.entries) <= c.max_size} \cup {None}
    /\ token_info_map = None
    /\ result = None
    /\ raised = None
    /\ NoExternal
    /\ NoExtra

\* get_token_info_map_from_path(config, path, cache)
GetTokenInfoMapFromPath ==
    /\ pc = "start"
    /\ op = "get_token_info_map_from_path"
    /\ \E o \in get_token_info_map_from_path(path, cache) :
          /\ token_info_map' = o.token_info_map
          /\ cache' = o.cache
          /\ fetches' = fetches \o o.fetched
          /\ raised' = o.raised
          /\ result' = IF o.raised = None THEN o.token_info_map ELSE None
          /\ pc' = IF o.raised = None THEN "returned" ELSE "raised"
    /\ UNCHANGED <<op, coords, from_addr, to_addr, value, transfers, path>>
    /\ UNCHANGED <<client, rpc, requests, find_path_calls>>
    /\ UNCHANGED extra

NextClassify == GetTokenInfoMapFromPath

SpecClassify == InitClassify /\ [][NextClassify]_vars

----------------------------------------------------------------------------

(* TokenInfoCache used directly: any sequence of set and get               *)

\* the rows a caller may store for an address
RowsFor(a) ==
    {TokenInfoRow(t, a, Addr(1)) :
        t \in {CRC_V2_REGISTER_HUMAN, CRC_V2_ERC20_WRAPPER_INFLATIONARY}}

InitCache ==
    /\ pc = "start"
    /\ op = "TokenInfoCache"
    /\ coords = None
    /\ NoFlowArgs
    /\ path = None
    /\ cache \in {[max_size |-> n, entries |-> <<>>] : n \in 1..CacheSize}
    /\ token_info_map = None
    /\ result = None
    /\ raised = None
    /\ NoExternal
    /\ NoExtra

\* cache.set(token_address, info)
CacheSet ==
    /\ \E token_address \in AddrStrings : \E info \in RowsFor(token_address) :
          /\ args' = [token_address |-> token_address, info |-> info]
          /\ cache' = cache_set(cache, token_address, info)
    /\ op' = "TokenInfoCache.set"
    /\ result' = None
    /\ pc' = "returned"
    /\ UNCHANGED <<coords, from_addr, to_addr, value, transfers, path, token_info_map,
                   raised, batches>>
    /\ UNCHANGED external

\* cache.get(token_address)
CacheGet ==
    /\ \E token_address \in AddrStrings :
          /\ args' = [token_address |-> token_address]
          /\ result' = cache_get(cache, token_address)
    /\ op' = "TokenInfoCache.get"
    /\ pc' = "returned"
    /\ UNCHANGED <<coords, from_addr, to_addr, value, transfers, path, cache,
                   token_info_map, raised, batches>>
    /\ UNCHANGED external

NextCache == CacheSet \/ CacheGet

SpecCache == InitCache /\ [][NextCache]_vars

----------------------------------------------------------------------------

(* Concurrent classification batches sharing one TokenInfoCache.  A batch  *)
(* runs without interruption from its start to the await of                *)
(* get_token_info_batch, and again from the return of the fetch to its own *)
(* return; other batches run while it waits.                               *)

BatchIds == {1, 2}

\* the paths classified: up to two steps in the tokens of the addresses 1, 2
\* (which a cache may hold) and 4 (which it never holds at the start)
BatchPaths ==
    [max_flow : {<<2>>},
     transfers : SeqsUpTo({TransferStep(Addr(1), Addr(2), Addr(o), <<1>>) : o \in {1, 2, 4}}, 2)]

InitBatches ==
    /\ pc = "start"
    /\ op = "get_token_info_map_from_path"
    /\ coords = None
    /\ NoFlowArgs
    /\ path = None
    /\ cache \in {c \in ClassifyCaches : Len(c.entries) <= c.max_size}
    /\ token_info_map = None
    /\ result = None
    /\ raised = None
    /\ NoExternal
    /\ args = None
    /\ batches \in [BatchIds -> {[pc |-> "start", path |-> p, token_info_map |-> <<>>,
                                  addresses_to_fetch |-> <<>>] : p \in BatchPaths}]

\* lines 101-122 of batch b: the cache lookup, and either the return (nothing
\* to fetch) or the call of get_token_info_batch, where the batch waits
Lookup(b) ==
    /\ batches[b].pc = "start"
    /\ LET hits == CacheHits(cache, UniqueAddresses(batches[b].path))
           missing == UniqueAddresses(batches[b].path) \ DOMAIN hits
       IN  IF missing = {}
           THEN /\ batches' = [batches EXCEPT ![b].pc = "returned",
                                              ![b].token_info_map = hits]
                /\ UNCHANGED fetches
           ELSE \E addresses_to_fetch \in Orderings(missing) :
                   /\ batches' = [batches EXCEPT ![b].pc = "fetching",
                                                 ![b].token_info_map = hits,
                                                 ![b].addresses_to_fetch = addresses_to_fetch]
                   /\ fetches' = Append(fetches, addresses_to_fetch)
    /\ UNCHANGED <<pc, op, coords, from_addr, to_addr, value, transfers, path, cache,
                   token_info_map, result, raised, client, rpc, requests,
                   find_path_calls, args>>

\* lines 122-130 of batch b: the fetch returns its rows, the local map and
\* the cache take them, and the batch returns
Insert(b) ==
    /\ batches[b].pc = "fetching"
    /\ LET batch_info == get_token_info_batch(batches[b].addresses_to_fetch)
       IN  /\ batches' = [batches EXCEPT
                            ![b].pc = "returned",
                            ![b].token_info_map = WithRows(@, batch_info)]
           /\ cache' = cache_set_batch(cache, batch_info)
    /\ UNCHANGED <<pc, op, coords, from_addr, to_addr, value, transfers, path,
                   token_info_map, result, raised, args>>
    /\ UNCHANGED external

\* line 122 of batch b: the fetch raises TokenError
FetchFails(b) ==
    /\ batches[b].pc = "fetching"
    /\ batches' = [batches EXCEPT ![b].pc = "raised"]
    /\ UNCHANGED <<pc, op, coords, from_addr, to_addr, value, transfers, path, cache,
                   token_info_map, result, raised, args>>
    /\ UNCHANGED external

NextBatches == \E b \in BatchIds : Lookup(b) \/ Insert(b) \/ FetchFails(b)

SpecBatches == InitBatches /\ [][NextBatches]_vars

----------------------------------------------------------------------------

(* transfers/simple.py and transfers/advanced.py: the two transfers        *)

\* characters of an amount string other than the digits 0..9
Minus == 45     \* "-"
Letter == 97    \* "a"

\* a string of one or more decimal digits
IsDigits(s) == Len(s) > 0 /\ \A i \in 1..Len(s) : s[i] \in 0..9

\* int(s) on any string: ok is false where Python raises ValueError
parse_int(s) ==
    IF IsDigits(s) THEN [ok |-> TRUE, value |-> int(s)]
    ELSE IF Len(s) > 1 /\ s[1] = Minus /\ IsDigits(Tail(s))
         THEN [ok |-> TRUE, value |-> 0 - int(Tail(s))]
         ELSE [ok |-> FALSE, value |-> 0]

\* str(n) for any integer n
str_int(n) == IF n < 0 THEN <<Minus>> \o str(0 - n) ELSE str(n)

\* a string that is no address: it starts with "0x" and has fewer than 42 characters
ShortAddress == [n |-> 1, up |-> FALSE, short |-> TRUE]

\* isinstance(addr, str) and addr.startswith('0x') and len(addr) == 42
is_address(addr) == DOMAIN addr = {"n", "up"}

\* the SDK's ValidationError
ValidationError(message, field) ==
    [type |-> "ValidationError", message |-> message, field |-> field]

\* simple.py lines 58-64: the exception for the amount, or None
validate_amount(amount) ==
    IF ~parse_int(amount).ok
    THEN ValidationError("Amount must be a valid integer string", "amount")
    ELSE IF parse_int(amount).value <= 0
         THEN ValidationError("Amount must be positive", "amount")
         ELSE None

\* SimpleTransfer._validate_transfer_params: the exception raised, or None
validate_transfer_params(f, t, amount) ==
    IF ~is_address(f) THEN ValidationError("Invalid from_addr", "from_addr")
    ELSE IF ~is_address(t) THEN ValidationError("Invalid to_addr", "to_addr")
    ELSE IF validate_amount(amount) # None THEN validate_amount(amount)
    ELSE IF lower(f) = lower(t)
         THEN ValidationError("Source and destination addresses must be different", "")
         ELSE None

\* FindPathParams(...): pydantic's ValidationError from the validators of
\* from_addr, to_addr and target_flow, or None
FindPathParams(f, t, target_flow) ==
    IF ~is_address(f) \/ ~is_address(t) \/ ~parse_int(target_flow).ok
    THEN [type |-> "pydantic.ValidationError"]
    ELSE None

\* the exceptions find_path ends in (it turns every other one into PathfindingError)
FindPathErrors ==
    {[type |-> "NoPathFoundError"], [type |-> "InsufficientBalanceError"],
     [type |-> "PathfindingError"]}

\* the paths the pathfinder may answer with: steps from a lower to a higher
\* address, and one step of value 0 in the token of address 2
FoundSteps ==
    {s \in HopSteps : s.from_address.n < s.to_address.n}
        \cup {TransferStep(Addr(1), Addr(3), Addr(2), <<0>>)}
FoundPaths == [max_flow : MaxFlowStrings, transfers : SeqsUpTo(FoundSteps, MaxSteps)]

\* what a find_path call may do: raise, or return a path
FindPathOutcomes ==
    {[raised |-> e, path |-> None] : e \in FindPathErrors}
        \cup {[raised |-> None, path |-> p] : p \in FoundPaths}

\* config.v2_hub_address, as configured (mixed case)
V2HubAddress == [n |-> 12, up |-> TRUE]

\* TransactionCall(to, data, value)
TransactionCall(to, data) == [to |-> to, data |-> data, value |-> 0]

\* AdvancedTransfer._build_approval_calls(owner, spender)
build_approval_calls(owner, spender) ==
    <<TransactionCall(V2HubAddress, "setApprovalForAll_placeholder")>>

\* build_unwrap_calls(wrapped_totals): one call per wrapper, in dict order
build_unwrap_calls(wrapped_totals) ==
    [i \in 1..Len(wrapped_totals) |->
        TransactionCall(wrapped_totals[i].k, "unwrap_placeholder")]

\* the hub call that carries the flow matrix
transfer_call(flow_matrix) == TransactionCall(V2HubAddress, "flow_matrix_call_placeholder")

\* _check_approval_status: the placeholder answers False
check_approval_status(owner, spender) == FALSE

\* the batch that takes the unwrap calls after the transfer call
BatchRunUnwrapLast(approval_calls, unwrap_calls, transfer) ==
    approval_calls \o <<transfer>> \o unwrap_calls

\* the BatchRun after its add_transaction calls: approvals (line 131), then
\* unwraps (line 151), then the transfer call (line 190)
BatchRun(approval_calls, unwrap_calls, transfer) ==
    approval_calls \o unwrap_calls \o <<transfer>>

\* advanced.py lines 129-192, once the path and token_info_map are known:
\* [returned, raised], returned being [flow_matrix, calls]
BuildTransfer(f, t, p, m) ==
    LET approval_calls ==
            IF ~check_approval_status(f, f) THEN build_approval_calls(f, f) ELSE <<>>
        wrapped_totals == get_wrapped_token_totals_from_path(p.transfers, m)
        unwrap_calls ==
            IF Len(wrapped_totals) > 0 THEN build_unwrap_calls(wrapped_totals) ELSE <<>>
        shrunk_path == RewrittenPath(p, m).path
        mismatch == assert_no_netted_flow_mismatch(shrunk_path)
        fm == create_flow_matrix(f, t, shrunk_path.max_flow, shrunk_path.transfers)
    IN  IF mismatch # None THEN [returned |-> None, raised |-> mismatch]
        ELSE IF fm.raised # None THEN [returned |-> None, raised |-> fm.raised]
        ELSE [returned |->
                [flow_matrix |-> fm.returned,
                 calls |-> BatchRun(approval_calls, unwrap_calls, transfer_call(fm.returned))],
              raised |-> None]

\* simple.py lines 146-171, once the path is known: [returned, raised]
BuildSimpleTransfer(f, t, p) ==
    LET fm == create_flow_matrix(f, t, p.max_flow, p.transfers)
    IN  IF fm.raised # None
        THEN [returned |-> None,
              raised |-> [type |-> "PathfindingError",
                          message |-> "Unexpected error during transfer"]]
        ELSE fm

\* a client inside its context: session created, not closed
OpenClient == [session |-> "open", closed |-> FALSE]

\* amounts drawn: strings for SimpleTransfer ("0", "2", "02", "-1", "a"),
\* integers for AdvancedTransfer
AmountStrings == {<<0>>, <<2>>, <<0, 2>>, <<Minus, 1>>, <<Letter>>}
Amounts == {0 - 1, 0, 2}

\* the callers' addresses: a source written in upper case, the same address
\* and another one as destination, and a string that is no address
FromAddresses == {[n |-> 1, up |-> TRUE], ShortAddress}
ToAddresses == {[n |-> 1, up |-> FALSE], [n |-> 3, up |-> FALSE], ShortAddress}

\* caches an AdvancedTransfer may hold: empty, an avatar with its inflationary
\* wrapper, or the two wrappers
TransferCaches ==
    {c \in Caches : c.entries = <<>>
                    \/ (Len(c.entries) = 2
                        /\ c.entries[1].k.n + 1 = c.entries[2].k.n)}

InitTransfer ==
    /\ pc = "start"
    /\ coords = None
    /\ transfers = None
    /\ from_addr \in FromAddresses
    /\ to_addr \in ToAddresses
    /\ \/ /\ op = "SimpleTransfer.transfer"
          /\ value \in AmountStrings
          /\ cache = None
          /\ client = OpenClient
       \/ /\ op = "AdvancedTransfer.transitive_transfer"
          /\ value \in Amounts
          /\ cache \in TransferCaches
          /\ client \in {None, OpenClient}
    /\ path = None
    /\ token_info_map = None
    /\ result = None
    /\ raised = None
    /\ rpc = None
    /\ requests = 0 /\ fetches = <<>> /\ find_path_calls = 0
    /\ NoExtra

\* SimpleTransfer.transfer(from_addr, to_addr, amount)
SimpleTransferTransfer ==
    /\ pc = "start"
    /\ op = "SimpleTransfer.transfer"
    /\ LET f == lower(from_addr)
           t == lower(to_addr)
           invalid == validate_transfer_params(f, t, value)
       IN  IF invalid # None
           THEN /\ raised' = invalid
                /\ result' = None
                /\ pc' = "raised"
                /\ UNCHANGED <<path, find_path_calls>>
           ELSE \E o \in FindPathOutcomes :
                   LET r == IF o.raised # None THEN [returned |-> None, raised |-> o.raised]
                            ELSE BuildSimpleTransfer(f, t, o.path)
                   IN  /\ find_path_calls' = find_path_calls + 1
                       /\ path' = o.path
                       /\ result' = r.returned
                       /\ raised' = r.raised
                       /\ pc' = Outcome(r)
    /\ UNCHANGED <<op, coords, from_addr, to_addr, value, transfers, cache, token_info_map>>
    /\ UNCHANGED <<client, rpc, requests, fetches>>
    /\ UNCHANGED extra

\* AdvancedTransfer.transitive_transfer(from_addr, to_addr, amount)
TransitiveTransfer ==
    /\ pc = "start"
    /\ op = "AdvancedTransfer.transitive_transfer"
    /\ LET f == lower(from_addr)
           t == lower(to_addr)
           amount == value
       IN  IF client = None
           THEN /\ raised' = [type |-> "CirclesSDKError"]
                /\ result' = None
                /\ pc' = "raised"
                /\ UNCHANGED <<path, find_path_calls, token_info_map, cache, fetches>>
           ELSE IF FindPathParams(f, t, str_int(amount)) # None
           THEN /\ raised' = FindPathParams(f, t, str_int(amount))
                /\ result' = None
                /\ pc' = "raised"
                /\ UNCHANGED <<path, find_path_calls, token_info_map, cache, fetches>>
           ELSE \E o \in FindPathOutcomes :
                   /\ find_path_calls' = find_path_calls + 1
                   /\ path' = o.path
                   /\ IF o.raised # None
                      THEN /\ raised' = o.raised
                           /\ result' = None
                           /\ pc' = "raised"
                           /\ UNCHANGED <<token_info_map, cache, fetches>>
                      ELSE \E c \in get_token_info_map_from_path(o.path, cache) :
                              LET r == IF c.raised # None
                                       THEN [returned |-> None, raised |-> c.raised]
                                       ELSE BuildTransfer(f, t, o.path, c.token_info_map)
                              IN  /\ token_info_map' = c.token_info_map
                                  /\ cache' = c.cache
                                  /\ fetches' = fetches \o c.fetched
                                  /\ result' = r.returned
                                  /\ raised' = r.raised
                                  /\ pc' = Outcome(r)
    /\ UNCHANGED <<op, coords, from_addr, to_addr, value, transfers>>
    /\ UNCHANGED <<client, rpc, requests>>
    /\ UNCHANGED extra

NextTransfer == SimpleTransferTransfer \/ TransitiveTransfer

SpecTransfer == InitTransfer /\ [][NextTransfer]_vars

----------------------------------------------------------------------------

(* pathfinding/client.py: the PathfinderClient                             *)

MaxRetries == 2     \* largest config.max_retries drawn

\* the requests a behaviour may send: enough for two calls that use every retry
MaxRequests == 2 * (MaxRetries + 1)

\* an exception of the given class; cause is the class of the exception it
\* was made from ("" if none)
Exception(type, cause) == [type |-> type, cause |-> cause]

\* results a JSON-RPC response may carry: null, an object without maxFlow,
\* and paths with maxFlow "0" and "5"
NullResult == None
RpcResults ==
    {NullResult, [transfers |-> <<>>],
     [maxFlow |-> <<0>>, transfers |-> <<>>], [maxFlow |-> <<5>>, transfers |-> <<>>]}

\* what one session.post attempt may meet.  body tells how reading the
\* error text of an HTTP error response ends.
AttemptOutcomes ==
    {[kind |-> "ok", result |-> r] : r \in RpcResults}
        \cup {[kind |-> k] : k \in {"ClientError", "asyncio.TimeoutError",
                                    "bad_json", "bad_format"}}
        \cup {[kind |-> "http_429", retry_after_is_int |-> b] : b \in BOOLEAN}
        \cup {[kind |-> "http_error", body |-> b] :
                b \in {"read", "ClientError", "asyncio.TimeoutError"}}
        \cup {[kind |-> "rpc_error", code |-> c] : c \in {0 - 32000, 0 - 32001, 0 - 1}}

\* the handler that takes every failed attempt for a transport error
TransportErrorOrAny(o) == IF o.kind = "ok" THEN None ELSE Exception("ClientError", "")

\* lines 177-178: the ClientError or asyncio.TimeoutError the attempt raises
\* inside the try, or None
TransportError(o) ==
    IF o.kind \in {"ClientError", "asyncio.TimeoutError"} THEN Exception(o.kind, "")
    ELSE IF o.kind = "http_error" /\ o.body # "read" THEN Exception(o.body, "")
    ELSE None

\* lines 113-173 and 186-188: the exception the attempt raises past the
\* retry handler, or None
RaisedAtOnce(o) ==
    IF o.kind = "http_429"
    THEN (IF o.retry_after_is_int THEN Exception("RateLimitError", "")
          ELSE Exception("ValueError", ""))
    ELSE IF o.kind = "http_error" /\ o.body = "read" THEN Exception("RPCError", "")
    ELSE IF o.kind \in {"bad_json", "bad_format"} THEN Exception("RPCError", "")
    ELSE IF o.kind = "rpc_error"
         THEN (IF o.code = 0 - 32000 THEN Exception("NoPathFoundError", "")
               ELSE IF o.code = 0 - 32001 THEN Exception("InsufficientBalanceError", "")
               ELSE Exception("PathfindingError", ""))
    ELSE None

\* the classification that reports every exhausted call as a network error
AllRetriesFailedAsNetwork(last_exception) == Exception("NetworkError", "")

\* lines 190-199: the exception raised once the loop is left
AllRetriesFailed(last_exception) ==
    IF last_exception # None /\ last_exception.type = "asyncio.TimeoutError"
    THEN Exception("TimeoutError", "asyncio.TimeoutError")
    ELSE Exception("NetworkError", "")

\* the classes find_path lets through: PathfindingError and its subclasses
IsPathfindingError(e) ==
    e.type \in {"PathfindingError", "NoPathFoundError", "InsufficientBalanceError"}

\* find_path after its _make_rpc_call, r being [returned, raised]
find_path(r) ==
    IF r.raised # None
    THEN [returned |-> None,
          raised |-> IF IsPathfindingError(r.raised) THEN r.raised
                     ELSE Exception("PathfindingError", r.raised.type)]
    ELSE IF r.returned = NullResult
    THEN [returned |-> None, raised |-> Exception("NoPathFoundError", "")]
    ELSE IF "maxFlow" \notin DOMAIN r.returned
    THEN [returned |-> None, raised |-> Exception("PathfindingError", "KeyError")]
    ELSE [returned |-> [max_flow |-> r.returned.maxFlow, transfers |-> r.returned.transfers],
          raised |-> None]

\* the handler that answers 0 to every pathfinding failure
find_max_flow_any_error(r) ==
    LET p == find_path(r)
    IN  IF p.raised # None THEN [returned |-> 0, raised |-> None]
        ELSE [returned |-> int(p.returned.max_flow), raised |-> None]

\* find_max_flow after the _make_rpc_call of its find_path
find_max_flow(r) ==
    LET p == find_path(r)
    IN  IF p.raised # None
        THEN (IF p.raised.type = "NoPathFoundError" THEN [returned |-> 0, raised |-> None]
              ELSE p)
        ELSE [returned |-> int(p.returned.max_flow), raised |-> None]

\* what the operation called makes of the outcome of its _make_rpc_call
Finish(o, r) ==
    IF o = "find_path" THEN find_path(r)
    ELSE IF o = "find_max_flow" THEN find_max_flow(r)
    ELSE r

\* the operations of the client a caller may use
ClientOps == {"_make_rpc_call", "find_path", "find_max_flow"}

\* the test that looks at the session instead of the flag
IsClosedSession(c) == c.session = "closed"

\* line 91: self._closed
IsClosed(c) == c.closed

\* the locals of _make_rpc_call at its entry; outcomes and requests_at_entry
\* record what the attempts met and the requests sent before the call
RpcEntry == [attempt |-> 0, last_exception |-> None, outcomes |-> <<>>,
             requests_at_entry |-> requests]

InitClient ==
    /\ pc = "start"
    /\ op = "PathfinderClient"
    /\ coords = None
    /\ NoFlowArgs
    /\ NoPathArgs
    /\ result = None
    /\ raised = None
    /\ client \in {[session |-> "none", closed |-> FALSE, max_retries |-> n] :
                        n \in 0..MaxRetries}
    /\ rpc = None
    /\ requests = 0 /\ fetches = <<>> /\ find_path_calls = 0
    /\ NoExtra

\* _ensure_session, also through __aenter__: a session is created unless an
\* open one exists
EnsureSession ==
    /\ client.session # "open"
    /\ client' = [client EXCEPT !.session = "open"]
    /\ UNCHANGED <<pc, op, coords, from_addr, to_addr, value, transfers, path, cache,
                   token_info_map, result, raised, rpc, requests, fetches, find_path_calls>>
    /\ UNCHANGED extra

\* close, also through __aexit__
Close ==
    /\ client.session = "open" \/ ~client.closed
    /\ client' = [client EXCEPT !.session = IF @ = "open" THEN "closed" ELSE @,
                                !.closed = TRUE]
    /\ UNCHANGED <<pc, op, coords, from_addr, to_addr, value, transfers, path, cache,
                   token_info_map, result, raised, rpc, requests, fetches, find_path_calls>>
    /\ UNCHANGED extra

\* a caller starts one of the operations: lines 91-101 of _make_rpc_call
Call ==
    /\ pc # "calling"
    /\ requests + client.max_retries + 1 <= MaxRequests
    /\ \E o \in ClientOps :
          /\ op' = o
          /\ rpc' = RpcEntry
          /\ IF IsClosed(client)
             THEN LET r == Finish(o, [returned |-> None,
                                      raised |-> Exception("RuntimeError", "")])
                  IN  /\ result' = r.returned
                      /\ raised' = r.raised
                      /\ pc' = Outcome(r)
                      /\ UNCHANGED client
             ELSE /\ client' = [client EXCEPT !.session = "open"]
                  /\ result' = None
                  /\ raised' = None
                  /\ pc' = "calling"
    /\ UNCHANGED <<coords, from_addr, to_addr, value, transfers, path, cache,
                   token_info_map, requests, fetches, find_path_calls>>
    /\ UNCHANGED extra

\* one pass of the retry loop, lines 103-199
Attempt ==
    /\ pc = "calling"
    /\ IF client.session # "open"
       THEN \* session.post on a session closed meanwhile raises RuntimeError
            LET r == Finish(op, [returned |-> None,
                                 raised |-> Exception("RuntimeError", "")])
            IN  /\ rpc' = [rpc EXCEPT !.outcomes = Append(@, [kind |-> "session_closed"])]
                /\ result' = r.returned
                /\ raised' = r.raised
                /\ pc' = Outcome(r)
                /\ UNCHANGED requests
       ELSE \E o \in AttemptOutcomes :
               /\ requests' = requests + 1
               /\ IF TransportError(o) # None
                  THEN IF rpc.attempt < client.max_retries
                       THEN /\ rpc' = [rpc EXCEPT !.attempt = @ + 1,
                                                  !.last_exception = TransportError(o),
                                                  !.outcomes = Append(@, o)]
                            /\ UNCHANGED <<pc, result, raised>>
                       ELSE LET r == Finish(op, [returned |-> None,
                                                 raised |-> AllRetriesFailed(TransportError(o))])
                            IN  /\ rpc' = [rpc EXCEPT !.last_exception = TransportError(o),
                                                      !.outcomes = Append(@, o)]
                                /\ result' = r.returned
                                /\ raised' = r.raised
                                /\ pc' = Outcome(r)
                  ELSE LET r == Finish(op,
                                   IF RaisedAtOnce(o) # None
                                   THEN [returned |-> None, raised |-> RaisedAtOnce(o)]
                                   ELSE [returned |-> o.result, raised |-> None])
                       IN  /\ rpc' = [rpc EXCEPT !.outcomes = Append(@, o)]
                           /\ result' = r.returned
                           /\ raised' = r.raised
                           /\ pc' = Outcome(r)
    /\ UNCHANGED <<op, coords, from_addr, to_addr, value, transfers, path, cache,
                   token_info_map, client, fetches, find_path_calls>>
    /\ UNCHANGED extra

NextClient == EnsureSession \/ Close \/ Call \/ Attempt

SpecClient == InitClient /\ [][NextClient]_vars

----------------------------------------------------------------------------

(* Properties of the encoder                                               *)

FlowDone == op = "create_flow_matrix" /\ pc # "start"
PackDone == op = "pack_coordinates" /\ pc # "start"
Returned == pc = "returned"
Raised == pc = "raised"

\* bytes read back two at a time as big-endian unsigned values
Unpack(bytes) == [i \in 1..(Len(bytes) \div 2) |-> 256 * bytes[2 * i - 1] + bytes[2 * i]]

\* the amounts of the edges of es whose stream_sink_id is 1, added up
RECURSIVE SumOfTerminalAmounts(_)
SumOfTerminalAmounts(es) ==
    IF es = <<>> THEN 0
    ELSE (IF Head(es).stream_sink_id = 1 THEN int(Head(es).amount) ELSE 0)
            + SumOfTerminalAmounts(Tail(es))

\* the positions (from 1) of the steps whose to is the destination
StepsToDestination == {i \in 1..Len(transfers) : transfers[i].to_address = lower(to_addr)}

\* C1: whenever create_flow_matrix returns a FlowMatrix, the amounts of its
\* edges with stream_sink_id = 1 add up to int(expected_total) exactly.
C1_TerminalSumEqualsExpected ==
    (FlowDone /\ Returned) => SumOfTerminalAmounts(result.flow_edges) = int(value)

\* a returned two-edge matrix with one terminal and one intermediate edge
C1_Witness ==
    /\ FlowDone /\ Returned
    /\ Len(result.flow_edges) = 2
    /\ result.flow_edges[1].stream_sink_id = 0
    /\ result.flow_edges[2].stream_sink_id = 1

\* C2: when the terminal edges' amounts do not add up to the expected total,
\* create_flow_matrix returns nothing and fails with a FlowMatrixError that
\* reports both values.
C2_MismatchRaisesFlowMatrixError ==
    (/\ FlowDone
     /\ transfers # <<>>
     /\ SumOfTerminalAmounts(MarkedEdges(transfers, lower(to_addr))) # int(value))
    => /\ Raised
       /\ raised.type = "FlowMatrixError"
       /\ raised.terminal_sum = SumOfTerminalAmounts(MarkedEdges(transfers, lower(to_addr)))
       /\ raised.expected = int(value)

\* C5: for coordinates in [0, 65535] the buffer has 2 * len(coordinates)
\* bytes and reading it two bytes at a time, big-endian, gives the list back.
C5_PackRoundTrip ==
    (PackDone /\ \A i \in 1..Len(coords) : coords[i] \in 0..65535)
    => /\ Len(result) = 2 * Len(coords)
       /\ \A k \in 1..Len(result) : result[k] \in 0..255
       /\ Unpack(result) = coords

\* a packed list of three 16-bit coordinates that use both bytes
C5_Witness ==
    /\ PackDone
    /\ Len(coords) = 3
    /\ coords[1] = 65535 /\ coords[2] = 258 /\ coords[3] = 1
    /\ Len(result) = 6

\* C6: a coordinate above 65535 is a hard failure: pack_coordinates returns
\* no buffer for a list that holds one.
C6_OverflowIsHardFailure ==
    (PackDone /\ \E i \in 1..Len(coords) : coords[i] > 65535)
    => Raised

\* C7: the vertex list holds the source, the destination and every step's
\* from, to and token_owner, once each and nothing else, strictly ascending by
\* numeric value; an address's coordinate is its index in the list.
C7_VertexList ==
    FlowDone =>
        LET vs == transform_to_flow_vertices(transfers, lower(from_addr), lower(to_addr))
            wanted == {lower(from_addr), lower(to_addr)}
                        \cup {transfers[i].from_address : i \in 1..Len(transfers)}
                        \cup {transfers[i].to_address : i \in 1..Len(transfers)}
                        \cup {transfers[i].token_owner : i \in 1..Len(transfers)}
        IN  /\ {vs[i] : i \in 1..Len(vs)} = wanted
            /\ \A i, j \in 1..Len(vs) : i < j => int16(vs[i]) < int16(vs[j])
            /\ \A a \in wanted : vs[IndexOf(vs, a) + 1] = a
            /\ Returned =>
                  /\ result.flow_vertices = vs
                  /\ vs[result.source_coordinate + 1] = lower(from_addr)

\* a returned matrix over three vertices, one of them only a token owner,
\* for a caller who wrote the addresses in upper case
C7_Witness ==
    /\ FlowDone /\ Returned
    /\ Len(result.flow_vertices) = 3
    /\ from_addr.up
    /\ \E i \in 1..Len(transfers) :
          /\ transfers[i].token_owner \notin {lower(from_addr), lower(to_addr)}
          /\ \A j \in 1..Len(transfers) :
                transfers[i].token_owner \notin {transfers[j].from_address, transfers[j].to_address}

\* C8: the packed buffer of a matrix built from n steps has 6 * n bytes and
\* holds, for step i, the vertex indices of its token_owner, from and to at
\* coordinate positions 3i, 3i+1, 3i+2.
C8_PackedCoordinates ==
    (FlowDone /\ Returned) =>
        LET cs == Unpack(result.packed_coordinates)
            vs == result.flow_vertices
        IN  /\ Len(result.packed_coordinates) = 6 * Len(transfers)
            /\ \A i \in 0..(Len(transfers) - 1) :
                  /\ vs[cs[3 * i + 1] + 1] = transfers[i + 1].token_owner
                  /\ vs[cs[3 * i + 2] + 1] = transfers[i + 1].from_address
                  /\ vs[cs[3 * i + 3] + 1] = transfers[i + 1].to_address

\* a two-step path over three vertices packed into 12 bytes
C8_Witness ==
    /\ FlowDone /\ Returned
    /\ Len(transfers) = 2
    /\ Len(result.flow_vertices) = 3
    /\ Len(result.packed_coordinates) = 12
    /\ transfers[1].token_owner # transfers[1].from_address
    /\ transfers[2].token_owner # transfers[2].to_address

\* C9: when no step's to is the destination and the step list is not empty,
\* exactly the last edge is marked terminal and the terminal-sum check
\* compares that edge's amount with the expected total.
C9_ForcedTerminalIsLastEdge ==
    (FlowDone /\ transfers # <<>> /\ StepsToDestination = {})
    => LET n == Len(transfers)
           es == MarkedEdges(transfers, lower(to_addr))
       IN  /\ \A i \in 1..n : (es[i].stream_sink_id = 1) <=> (i = n)
           /\ Returned <=> (int(transfers[n].value) = int(value))
           /\ Returned =>
                 /\ result.flow_edges = es
                 /\ result.streams[1].flow_edge_ids = <<n - 1>>
           /\ ~Returned =>
                 /\ raised.type = "ValueError"
                 /\ raised.terminal_sum = int(transfers[n].value)
                 /\ raised.expected = int(value)

\* a returned two-step matrix whose terminal edge was forced
C9_Witness ==
    /\ FlowDone /\ Returned
    /\ Len(transfers) = 2
    /\ StepsToDestination = {}
    /\ int(transfers[1].value) # int(transfers[2].value)

----------------------------------------------------------------------------
(* Properties of the conservation check                                    *)

CheckDone == op = "assert_no_netted_flow_mismatch" /\ pc # "start"

\* every address that sends or receives in some step of the path
Vertices == {path.transfers[i].from_address : i \in 1..Len(path.transfers)}
                \cup {path.transfers[i].to_address : i \in 1..Len(path.transfers)}

\* incoming minus outgoing step values of address a
RECURSIVE NetFlowOf(_, _)
NetFlowOf(ts, a) ==
    IF ts = <<>> THEN 0
    ELSE (IF Head(ts).to_address = a THEN int(Head(ts).value) ELSE 0)
            - (IF Head(ts).from_address = a THEN int(Head(ts).value) ELSE 0)
            + NetFlowOf(Tail(ts), a)

\* the vertices that send and never receive, and those that receive and never send
SendOnly ==
    {a \in Vertices : \A i \in 1..Len(path.transfers) : path.transfers[i].to_address # a}
ReceiveOnly ==
    {a \in Vertices : \A i \in 1..Len(path.transfers) : path.transfers[i].from_address # a}

\* C3: on a path the check accepts, exactly one vertex has negative net flow
\* (the source), exactly one has positive net flow (the sink) and every other
\* vertex has net flow zero.
C3_AcceptedPathConserves ==
    (CheckDone /\ Returned) =>
        LET neg == {a \in Vertices : NetFlowOf(path.transfers, a) < 0}
            pos == {a \in Vertices : NetFlowOf(path.transfers, a) > 0}
        IN  /\ Cardinality(neg) = 1
            /\ Cardinality(pos) = 1
            /\ neg = SendOnly
            /\ pos = ReceiveOnly
            /\ \A a \in Vertices \ (neg \cup pos) : NetFlowOf(path.transfers, a) = 0

\* an accepted path through an intermediate vertex
C3_Witness ==
    /\ CheckDone /\ Returned
    /\ Len(path.transfers) = 2
    /\ Cardinality(Vertices) = 3
    /\ \E a \in Vertices : a \notin SendOnly /\ a \notin ReceiveOnly

\* C4: the check fails with PathfindingError ("could not determine unique
\* source / sink") whenever the send-only vertices or the receive-only
\* vertices are not exactly one.
C4_AmbiguityIsAnError ==
    (CheckDone /\ (Cardinality(SendOnly) # 1 \/ Cardinality(ReceiveOnly) # 1))
    => /\ Raised
       /\ raised.type = "PathfindingError"
       /\ raised.message = "Could not determine unique source / sink"

\* a rejected path with two send-only vertices and one receiver
C4_Witness ==
    /\ CheckDone /\ Raised
    /\ Cardinality(SendOnly) = 2
    /\ Cardinality(ReceiveOnly) = 1
    /\ raised.message = "Could not determine unique source / sink"

----------------------------------------------------------------------------
(* Properties of the rewriter                                              *)

RewriteDone == op = "process_path_for_wrapped_tokens" /\ pc # "start"

\* no token_owner of the path was classified as a wrapper
NoWrapperInPath ==
    \A i \in 1..Len(path.transfers) :
        LET o == path.transfers[i].token_owner
        IN  o \in DOMAIN token_info_map =>
                token_info_map[o].type
                    \notin {CRC_V2_ERC20_WRAPPER_INFLATIONARY, CRC_V2_ERC20_WRAPPER_DEMURRAGED}

\* C10: rewriting a path none of whose token owners classifies as a wrapper
\* returns the same max_flow and the same steps in the same order, and
\* reports had_inflationary_wrapper = false.
C10_NoWrapperPathUnchanged ==
    (RewriteDone /\ Returned /\ NoWrapperInPath)
    => /\ result.path.max_flow = path.max_flow
       /\ Len(result.path.transfers) = Len(path.transfers)
       /\ \A i \in 1..Len(path.transfers) :
             /\ result.path.transfers[i].from_address = path.transfers[i].from_address
             /\ result.path.transfers[i].to_address = path.transfers[i].to_address
             /\ result.path.transfers[i].token_owner = path.transfers[i].token_owner
             /\ result.path.transfers[i].value = path.transfers[i].value
       /\ result.had_inflationary_wrapper = FALSE

\* a rewritten two-step path on two native tokens, one classified from the
\* cache and one fetched, while the cache holds a wrapper the path does not use
C10_Witness ==
    /\ RewriteDone /\ Returned /\ NoWrapperInPath
    /\ Len(path.transfers) = 2
    /\ path.transfers[1].token_owner # path.transfers[2].token_owner
    /\ Cardinality(DOMAIN token_info_map) = 2
    /\ cache # None
    /\ \E i \in 1..Len(cache.entries) :
          cache.entries[i].v.type = CRC_V2_ERC20_WRAPPER_INFLATIONARY

\* the type token_info_map gives the token owner of step i of the path
OwnerType(i) ==
    LET o == path.transfers[i].token_owner
    IN  IF o \in DOMAIN token_info_map THEN token_info_map[o].type ELSE "unknown"

InflationarySteps ==
    {i \in 1..Len(path.transfers) : OwnerType(i) = CRC_V2_ERC20_WRAPPER_INFLATIONARY}
DemurragedSteps ==
    {i \in 1..Len(path.transfers) : OwnerType(i) = CRC_V2_ERC20_WRAPPER_DEMURRAGED}

\* the values of the steps of ts, added up
RECURSIVE SumOfValues(_)
SumOfValues(ts) == IF ts = <<>> THEN 0 ELSE int(Head(ts).value) + SumOfValues(Tail(ts))

\* C11: the rewriter reports had_inflationary_wrapper = true, and returns
\* shrunk values, exactly when some token owner of the path is an inflationary
\* wrapper; otherwise every step keeps its from, to and value and max_flow is
\* kept, a demurraged wrapper's token_owner being replaced by its avatar.
C11_ShrinkIffInflationary ==
    (RewriteDone /\ Returned) =>
        /\ result.had_inflationary_wrapper = (InflationarySteps # {})
        /\ InflationarySteps # {} =>
              /\ Len(result.path.transfers) <= Len(path.transfers)
              /\ SumOfValues(result.path.transfers) < SumOfValues(path.transfers)
        /\ InflationarySteps = {} =>
              /\ result.path.max_flow = path.max_flow
              /\ Len(result.path.transfers) = Len(path.transfers)
              /\ \A i \in 1..Len(path.transfers) :
                    /\ result.path.transfers[i].from_address = path.transfers[i].from_address
                    /\ result.path.transfers[i].to_address = path.transfers[i].to_address
                    /\ result.path.transfers[i].value = path.transfers[i].value
                    /\ result.path.transfers[i].token_owner =
                          IF i \in DemurragedSteps
                          THEN token_info_map[path.transfers[i].token_owner].token_owner
                          ELSE path.transfers[i].token_owner

\* a rewritten two-step path whose only wrapper is demurraged: that step's
\* token_owner became the avatar, the other step's native token was fetched
C11_Witness ==
    /\ RewriteDone /\ Returned
    /\ Len(path.transfers) = 2
    /\ DemurragedSteps = {1}
    /\ InflationarySteps = {}
    /\ OwnerType(2) = CRC_V2_REGISTER_HUMAN
    /\ result.path.transfers[1].token_owner # path.transfers[1].token_owner
    /\ result.path.transfers[2].token_owner = path.transfers[2].token_owner

----------------------------------------------------------------------------
(* Properties of the value shrinkage                                       *)

ShrinkDone == op = "shrink_path_values" /\ pc # "start"

\* the positions of the input steps whose scaled value is not 0
KeptSteps == {i \in 1..Len(path.transfers) : ScaledValue(int(path.transfers[i].value)) # 0}

\* the position in the output of the kept input step i
OutputPosition(i) == Cardinality({j \in KeptSteps : j <= i})

\* C12: shrink_path_values with the default retention returns exactly the
\* input steps whose scaled value is not 0, in the input's order, each with
\* its from, to and token_owner and a value between 1 and its old value.
C12_ShrinkKeepsOrderAndBounds ==
    ShrinkDone =>
        /\ Len(result.transfers) = Cardinality(KeptSteps)
        /\ \A i \in KeptSteps :
              LET old == path.transfers[i]
                  new == result.transfers[OutputPosition(i)]
              IN  /\ new.from_address = old.from_address
                  /\ new.to_address = old.to_address
                  /\ new.token_owner = old.token_owner
                  /\ int(new.value) >= 1
                  /\ int(new.value) <= int(old.value)
        /\ \A k \in 1..Len(result.transfers) : int(result.transfers[k].value) >= 1

\* a shrunk two-step path that lost its first step (value 1, scaled to 0) and
\* kept its second with a smaller value
C12_Witness ==
    /\ ShrinkDone
    /\ Len(path.transfers) = 2
    /\ int(path.transfers[1].value) = 1
    /\ int(path.transfers[2].value) = 100
    /\ Len(result.transfers) = 1
    /\ result.transfers[1].value = <<9, 9>>
    /\ result.transfers[1].from_address = path.transfers[2].from_address

----------------------------------------------------------------------------
(* Properties of the token classification                                  *)

ClassifyDone == op = "get_token_info_map_from_path" /\ pc # "start"

\* the keys of a cache (none without a cache)
CacheKeys(c) == IF c = None THEN {} ELSE {c.entries[i].k : i \in 1..Len(c.entries)}

\* the elements of a list
Elements(list) == {list[i] : i \in 1..Len(list)}

\* C13: a classification batch fetches nothing when every distinct token
\* owner of the path is cached, and otherwise makes exactly one fetch, of
\* exactly the uncached addresses; when it returns, the map holds the cached
\* row of every hit and a fetched row for every other owner, and the fetched
\* rows went into the cache (all of them kept when the cache has room).
C13_OneBatchedFetch ==
    [][(op = "get_token_info_map_from_path" /\ pc = "start" /\ pc' # "start") =>
        LET uniq == UniqueAddresses(path)
            cached == uniq \cap CacheKeys(cache)
            uncached == uniq \ cached
        IN  /\ uncached = {} => (fetches' = <<>> /\ pc' = "returned" /\ cache' = cache)
            /\ uncached # {} =>
                  /\ Len(fetches') = 1
                  /\ Elements(fetches'[1]) = uncached
                  /\ Len(fetches'[1]) = Cardinality(uncached)
            /\ pc' = "returned" =>
                  /\ DOMAIN result' = uniq
                  /\ \A a \in cached : result'[a] = Get(cache.entries, a, None)
                  /\ \A a \in uncached : result'[a].token = a
                  /\ cache # None =>
                        /\ CacheKeys(cache') \subseteq CacheKeys(cache) \cup uncached
                        /\ \A a \in uncached \cap CacheKeys(cache') :
                              Get(cache'.entries, a, None) = result'[a]
                        /\ uncached # {} =>
                              fetches'[1][Len(fetches'[1])] \in CacheKeys(cache')
                        /\ Len(cache.entries) + Cardinality(uncached) <= cache.max_size =>
                              CacheKeys(cache') = CacheKeys(cache) \cup uncached
    ]_vars

\* a returned map of two owners, a wrapper found in the cache and an address
\* fetched in a batch of one, which the cache holds afterwards
C13_Witness ==
    /\ ClassifyDone /\ Returned
    /\ cache # None
    /\ Cardinality(DOMAIN result) = 2
    /\ Len(fetches) = 1
    /\ Len(fetches[1]) = 1
    /\ fetches[1][1] \in CacheKeys(cache)
    /\ \E a \in DOMAIN result :
          /\ a # fetches[1][1]
          /\ result[a].type = CRC_V2_ERC20_WRAPPER_DEMURRAGED

----------------------------------------------------------------------------
(* Properties of the transfers                                             *)

SimpleDone == op = "SimpleTransfer.transfer" /\ pc # "start"
AdvancedDone == op = "AdvancedTransfer.transitive_transfer" /\ pc # "start"

\* C14: a transitive_transfer whose metadata fetch fails ends in TokenError
\* and returns nothing (no path, FlowMatrix or call list) with the cache as it
\* was before the call; a transfer that returns classified every token owner
\* of its path, so no partial classification is ever used.
C14_FetchFailureFailsWholeBatch ==
    [][(op = "AdvancedTransfer.transitive_transfer" /\ pc = "start" /\ pc' # "start") =>
        /\ (pc' = "raised" /\ raised'.type = "TokenError") =>
              /\ result' = None
              /\ cache' = cache
              /\ Len(fetches') = 1
        /\ pc' = "returned" =>
              /\ DOMAIN token_info_map' = UniqueAddresses(path')
              /\ raised' = None
    ]_vars

\* a transfer over a two-step path that found one token owner in the cache,
\* failed to fetch the other and ended in TokenError with nothing returned
C14_Witness ==
    /\ AdvancedDone /\ Raised
    /\ raised.type = "TokenError"
    /\ result = None
    /\ find_path_calls = 1
    /\ Len(path.transfers) = 2
    /\ Cardinality(DOMAIN token_info_map) = 1
    /\ Len(fetches) = 1 /\ Len(fetches[1]) = 1
    /\ Len(cache.entries) = 2

\* the transfer's amount as a number (0 for a string that is no integer)
AmountOf == IF op = "SimpleTransfer.transfer" THEN parse_int(value).value ELSE value

\* the caller's input is malformed: an address that is none, the same
\* address twice up to case, or an amount that is not positive
InvalidTransferInput ==
    \/ ~is_address(from_addr)
    \/ ~is_address(to_addr)
    \/ lower(from_addr) = lower(to_addr)
    \/ AmountOf <= 0

\* C15: SimpleTransfer.transfer and AdvancedTransfer.transitive_transfer,
\* called on a malformed address, on equal from and to, or on an amount <= 0,
\* end in ValidationError without having called the pathfinder.
C15_InvalidInputRejectedBeforePathfinder ==
    ((SimpleDone \/ AdvancedDone) /\ client # None /\ InvalidTransferInput)
    => /\ Raised
       /\ raised.type = "ValidationError"
       /\ find_path_calls = 0

\* the same for SimpleTransfer.transfer alone
SimpleTransferValidates ==
    (SimpleDone /\ (InvalidTransferInput \/ ~parse_int(value).ok))
    => /\ Raised
       /\ raised.type = "ValidationError"
       /\ find_path_calls = 0

\* the positions of the calls of the returned list that carry the given data
CallsWith(data) == {i \in 1..Len(result.calls) : result.calls[i].data = data}

ApprovalCalls == CallsWith("setApprovalForAll_placeholder")
UnwrapCalls == CallsWith("unwrap_placeholder")
TransferCalls == CallsWith("flow_matrix_call_placeholder")

\* C16: in the call list transitive_transfer returns every approval call
\* comes before every unwrap call, every unwrap call before the flow-matrix
\* transfer call, and there is exactly one transfer call, the last element.
C16_CallListOrder ==
    (AdvancedDone /\ Returned) =>
        /\ ApprovalCalls \cup UnwrapCalls \cup TransferCalls = 1..Len(result.calls)
        /\ \A a \in ApprovalCalls : \A u \in UnwrapCalls : a < u
        /\ \A u \in UnwrapCalls : \A x \in TransferCalls : u < x
        /\ \A a \in ApprovalCalls : \A x \in TransferCalls : a < x
        /\ TransferCalls = {Len(result.calls)}
        /\ result.calls[Len(result.calls)].to = V2HubAddress

\* a returned list of four calls: the approval, the unwraps of two wrappers
\* of the path, and the transfer
C16_Witness ==
    /\ AdvancedDone /\ Returned
    /\ Len(result.calls) = 4
    /\ ApprovalCalls = {1}
    /\ UnwrapCalls = {2, 3}
    /\ result.calls[2].to # result.calls[3].to
    /\ TransferCalls = {4}

\* the wrappers of the found path: the token owners token_info_map
\* classifies as wrapped
PathWrappers ==
    {path.transfers[i].token_owner : i \in
        {j \in 1..Len(path.transfers) :
            /\ path.transfers[j].token_owner \in DOMAIN token_info_map
            /\ is_wrapped(token_info_map[path.transfers[j].token_owner])}}

\* the values of the steps of ts in the token of w, added up
RECURSIVE WrappedTotal(_, _)
WrappedTotal(ts, w) ==
    IF ts = <<>> THEN 0
    ELSE (IF Head(ts).token_owner = w THEN int(Head(ts).value) ELSE 0)
            + WrappedTotal(Tail(ts), w)

\* C27: the returned call list has exactly one unwrap call, addressed to the
\* wrapper, for every wrapper of the path whose wrapped total is not zero,
\* and no unwrap call addressed to anything else.
C27_OneUnwrapPerNonzeroWrapper ==
    (AdvancedDone /\ Returned) =>
        LET nonzero == {w \in PathWrappers : WrappedTotal(path.transfers, w) # 0}
        IN  /\ \A w \in nonzero :
                  Cardinality({i \in UnwrapCalls : result.calls[i].to = w}) = 1
            /\ \A i \in UnwrapCalls : result.calls[i].to \in nonzero

\* what holds of the code: one unwrap call for every wrapper of the path,
\* whatever its total
OneUnwrapPerWrapper ==
    (AdvancedDone /\ Returned) =>
        /\ \A w \in PathWrappers :
              Cardinality({i \in UnwrapCalls : result.calls[i].to = w}) = 1
        /\ \A i \in UnwrapCalls : result.calls[i].to \in PathWrappers

\* a valid transfer of 2 from address 1 to address 3 whose call list unwraps
\* wrapper 2 although the path moves nothing in its token
UnwrapOfZeroTotal ==
    /\ AdvancedDone /\ Returned
    /\ value = 2 /\ to_addr = Addr(3)
    /\ Addr(2) \in PathWrappers
    /\ WrappedTotal(path.transfers, Addr(2)) = 0
    /\ \E i \in UnwrapCalls : result.calls[i].to = Addr(2)

----------------------------------------------------------------------------
(* Properties of the pathfinder client                                     *)

CallDone == op \in ClientOps /\ pc \in {"returned", "raised"}

\* the requests the current call has sent
RequestsOfCall == requests - rpc.requests_at_entry

\* what the last attempt of the current call met (None before the first)
LastOutcome == IF Len(rpc.outcomes) = 0 THEN None ELSE rpc.outcomes[Len(rpc.outcomes)]

\* the attempt failed with a transport error: the request, or the reading of
\* an error response's text, ended in ClientError or asyncio.TimeoutError
TimedOut(o) ==
    \/ o.kind = "asyncio.TimeoutError"
    \/ (o.kind = "http_error" /\ o.body = "asyncio.TimeoutError")
FailedInTransport(o) ==
    \/ TimedOut(o)
    \/ o.kind = "ClientError"
    \/ (o.kind = "http_error" /\ o.body = "ClientError")

\* the exception class an RPC-level failure is reported with (a 429 whose
\* Retry-After is no integer fails in int()), "" for an attempt that met none
SemanticFailure(o) ==
    IF o.kind = "rpc_error"
    THEN (IF o.code = 0 - 32000 THEN "NoPathFoundError"
          ELSE IF o.code = 0 - 32001 THEN "InsufficientBalanceError"
          ELSE "PathfindingError")
    ELSE IF o.kind = "http_429"
    THEN (IF o.retry_after_is_int THEN "RateLimitError" ELSE "ValueError")
    ELSE IF o.kind \in {"bad_json", "bad_format"} THEN "RPCError"
    ELSE IF o.kind = "http_error" /\ o.body = "read" THEN "RPCError"
    ELSE ""

\* the call's exception is of class c, or was made from one of class c
RaisedFrom(c) == Raised /\ (raised.type = c \/ raised.cause = c)

\* the query found no path: RPC error -32000, or an empty result
NoPathReported ==
    /\ LastOutcome # None
    /\ \/ (LastOutcome.kind = "rpc_error" /\ LastOutcome.code = 0 - 32000)
       \/ (LastOutcome.kind = "ok" /\ LastOutcome.result = NullResult)

\* the pathfinder answered with a path whose maxFlow is 0
ZeroFlowReported ==
    /\ LastOutcome # None
    /\ LastOutcome.kind = "ok"
    /\ "maxFlow" \in DOMAIN LastOutcome.result
    /\ int(LastOutcome.result.maxFlow) = 0

AllFailedInTransport ==
    /\ Len(rpc.outcomes) > 0
    /\ \A i \in 1..Len(rpc.outcomes) : FailedInTransport(rpc.outcomes[i])

C18_SuccessAfterRetry ==
    /\ op = "_make_rpc_call" /\ Returned
    /\ Len(rpc.outcomes) = 2
    /\ result = [maxFlow |-> <<5>>, transfers |-> <<>>]

----------------------------------------------------------------------------
(* Further properties of the encoder                                       *)

\* step i's to is the overall destination
ToDestination(i) == lower(transfers[i].to_address) = lower(to_addr)

\* the claim as stated: in a returned matrix edge i carries step i's value
\* and is terminal exactly when step i's to is the destination
C21_EdgeTerminalIffToDestination ==
    (FlowDone /\ Returned) =>
        /\ Len(result.flow_edges) = Len(transfers)
        /\ \A i \in 1..Len(transfers) :
              /\ result.flow_edges[i].amount = transfers[i].value
              /\ result.flow_edges[i].stream_sink_id = IF ToDestination(i) THEN 1 ELSE 0

\* C21: in a returned matrix edge i carries step i's value verbatim, and is
\* terminal (1), otherwise intermediate (0), exactly when step i's to is the
\* destination or, no step going to the destination, i is the last step.
C21_EdgeTerminalIffToDestinationOrForced ==
    (FlowDone /\ Returned) =>
        /\ Len(result.flow_edges) = Len(transfers)
        /\ \A i \in 1..Len(transfers) :
              /\ result.flow_edges[i].amount = transfers[i].value
              /\ result.flow_edges[i].stream_sink_id =
                    IF \/ ToDestination(i)
                       \/ (i = Len(transfers) /\ \A j \in 1..Len(transfers) : ~ToDestination(j))
                    THEN 1 ELSE 0

\* a returned matrix with an intermediate and a terminal edge whose second
\* amount is a string with a leading zero
C21_Witness ==
    /\ FlowDone /\ Returned
    /\ Len(transfers) = 2
    /\ ~ToDestination(1) /\ ToDestination(2)
    /\ result.flow_edges[1].stream_sink_id = 0
    /\ result.flow_edges[2].amount = <<0, 2>>

\* C22: a returned matrix has at least one terminal edge and its stream names
\* at least one edge; a call with an empty step list returns no matrix.
C22_AtLeastOneTerminalEdge ==
    FlowDone =>
        /\ Returned =>
              /\ \E i \in 1..Len(result.flow_edges) : result.flow_edges[i].stream_sink_id = 1
              /\ \A s \in 1..Len(result.streams) : result.streams[s].flow_edge_ids # <<>>
        /\ transfers = <<>> => Raised

\* a returned matrix all of whose edges are terminal
C22_Witness ==
    /\ FlowDone /\ Returned
    /\ Len(result.flow_edges) = 2
    /\ \A i \in 1..2 : result.flow_edges[i].stream_sink_id = 1
    /\ Len(result.streams[1].flow_edge_ids) = 2

\* the empty step list with every total drawn fails
EmptyStepListRaises == (FlowDone /\ transfers = <<>>) => raised.type = "IndexError"

\* 0-based position of address a in the ascending vertex list of the call
SortedIndex(a) ==
    Cardinality({b \in CollectAddresses(transfers, lower(from_addr), lower(to_addr)) :
                    int16(b) < int16(a)})

\* C23: a returned matrix has exactly one stream; the stream's and the
\* matrix's source_coordinate are the index of the source address in the
\* sorted vertex list; flow_edge_ids are the indices of all terminal edges,
\* ascending; data is empty.
C23_SingleStream ==
    (FlowDone /\ Returned) =>
        /\ Len(result.streams) = 1
        /\ result.streams[1].source_coordinate = SortedIndex(lower(from_addr))
        /\ result.source_coordinate = SortedIndex(lower(from_addr))
        /\ result.flow_vertices[SortedIndex(lower(from_addr)) + 1] = lower(from_addr)
        /\ LET ids == result.streams[1].flow_edge_ids
           IN  /\ \A k \in 1..Len(ids) :
                     /\ ids[k] \in 0..(Len(result.flow_edges) - 1)
                     /\ result.flow_edges[ids[k] + 1].stream_sink_id = 1
               /\ \A k \in 1..(Len(ids) - 1) : ids[k] < ids[k + 1]
               /\ \A i \in 1..Len(result.flow_edges) :
                     result.flow_edges[i].stream_sink_id = 1 =>
                        \E k \in 1..Len(ids) : ids[k] = i - 1
        /\ result.streams[1].data = <<>>

\* a returned matrix with two terminal edges whose source is not the lowest
\* vertex
C23_Witness ==
    /\ FlowDone /\ Returned
    /\ result.streams[1].flow_edge_ids = <<0, 1>>
    /\ result.source_coordinate > 0

----------------------------------------------------------------------------
(* Properties of replace_wrapped_tokens                                    *)

ReplaceDone == op = "replace_wrapped_tokens" /\ pc # "start"

\* the wrappers the call was given, and the avatar it was given for wrapper w
KnownWrappers == {args.unwrapped_totals[j].k : j \in 1..Len(args.unwrapped_totals)}
AvatarOf(w) ==
    LET j == CHOOSE j \in 1..Len(args.unwrapped_totals) : args.unwrapped_totals[j].k = w
    IN  args.unwrapped_totals[j].v.avatar

\* C24: the path replace_wrapped_tokens returns has the input's max_flow and
\* as many steps; step i keeps from, to and value; its token_owner is the
\* wrapper's avatar if the input's token_owner is a known wrapper and the
\* input's token_owner otherwise; the call changes neither of its arguments.
C24_OnlyTokenOwnerRewritten ==
    [][(op = "replace_wrapped_tokens" /\ pc = "start" /\ pc' # "start") =>
          /\ pc' = "returned"
          /\ path' = path
          /\ args' = args
          /\ result'.max_flow = path.max_flow
          /\ Len(result'.transfers) = Len(path.transfers)
          /\ \A i \in 1..Len(path.transfers) :
                LET t == path.transfers[i]
                    r == result'.transfers[i]
                IN  /\ r.from_address = t.from_address
                    /\ r.to_address = t.to_address
                    /\ r.value = t.value
                    /\ r.token_owner = IF t.token_owner \in KnownWrappers
                                       THEN AvatarOf(t.token_owner)
                                       ELSE t.token_owner]_vars

\* a two-step result, the first step on a wrapper rewritten to an avatar that
\* is no address of the path, the second on a native token
C24_Witness ==
    /\ ReplaceDone
    /\ Len(path.transfers) = 2
    /\ path.transfers[1].token_owner \in KnownWrappers
    /\ result.transfers[1].token_owner = Addr(4)
    /\ path.transfers[2].token_owner \notin KnownWrappers
    /\ result.transfers[2].token_owner = path.transfers[2].token_owner
    /\ path.transfers[2].value = <<0, 2>>

----------------------------------------------------------------------------
(* Further properties of shrink_path_values                                *)

\* the vertices that receive from a surviving step and send in none
SurvivingSinks ==
    {path.transfers[i].to_address : i \in KeptSteps}
        \ {path.transfers[i].from_address : i \in KeptSteps}

\* the scaled values of the steps at the positions S that go to s, added up
RECURSIVE ScaledInto(_, _)
ScaledInto(S, s) ==
    IF S = {} THEN 0
    ELSE LET i == CHOOSE i \in S : TRUE
         IN  (IF path.transfers[i].to_address = s
              THEN ScaledValue(int(path.transfers[i].value)) ELSE 0)
                + ScaledInto(S \ {i}, s)

\* C25: when exactly one vertex receives from a surviving step and sends in
\* no surviving step, the max_flow shrink_path_values reports is the sum of
\* the scaled values of the surviving steps into that vertex.
C25_MaxFlowIsScaledInflowOfSink ==
    ShrinkDone =>
        \A s \in SurvivingSinks :
            SurvivingSinks = {s} => result.max_flow = str(ScaledInto(KeptSteps, s))

\* two surviving steps into the one sink, and a reported max_flow that is
\* not the input max_flow scaled
C25_Witness ==
    /\ ShrinkDone
    /\ Cardinality(SurvivingSinks) = 1
    /\ Cardinality(KeptSteps) = 2
    /\ \A i \in KeptSteps : path.transfers[i].to_address \in SurvivingSinks
    /\ \A i \in KeptSteps : int(path.transfers[i].value) = 100
    /\ result.max_flow = <<1, 9, 8>>
    /\ ScaledValue(int(path.max_flow)) = 1

----------------------------------------------------------------------------
(* shrink_path_values and the conservation check                           *)

\* the check accepts the path p
Passes(p) == assert_no_netted_flow_mismatch(p) = None

\* C28: when the path shrink_path_values returns passes the conservation
\* check, the sink the shrinking chose is the sink _get_source_and_sink
\* finds, and the reported max_flow is that sink's net flow and the negated
\* net flow of the source.
C28_SinksAgree ==
    (ShrinkDone /\ Passes(result)) =>
        LET ss == get_source_and_sink(result)
        IN  /\ ss.raised = None
            /\ FirstSink(ScaledSteps(path.transfers)) = ss.sink
            /\ int(result.max_flow) = NetFlowOf(result.transfers, ss.sink)
            /\ int(result.max_flow) = 0 - NetFlowOf(result.transfers, ss.source)

\* a returned three-step path that passes, its first step not into the sink
C28_Witness ==
    /\ ShrinkDone /\ Passes(result)
    /\ Len(result.transfers) = 3
    /\ result.transfers[1].to_address # get_source_and_sink(result).sink
    /\ result.max_flow = <<4>>

\* no step of the input was dropped
NothingDropped == Len(result.transfers) = Len(path.transfers)

\* the vertices of p other than its source and its sink
Intermediate(p) ==
    (Senders(p.transfers) \cup Receivers(p.transfers))
        \ {get_source_and_sink(p).source, get_source_and_sink(p).sink}

\* the claim as stated: shrinking a path that passes gives a path that
\* passes, with the same source and the same sink
C29_ShrinkPreservesConservation ==
    (ShrinkDone /\ Passes(path)) =>
        /\ Passes(result)
        /\ get_source_and_sink(result).source = get_source_and_sink(path).source
        /\ get_source_and_sink(result).sink = get_source_and_sink(path).sink

\* C29: for a path that passes the conservation check and none of whose
\* steps is scaled to zero, the path shrink_path_values returns has the same
\* source and the same sink, and it passes the check unless the truncation
\* left a vertex between them unbalanced, which the check then reports.
C29_ShrinkKeepsSourceAndSinkIfNothingDropped ==
    (ShrinkDone /\ Passes(path) /\ NothingDropped) =>
        /\ get_source_and_sink(result).raised = None
        /\ get_source_and_sink(result).source = get_source_and_sink(path).source
        /\ get_source_and_sink(result).sink = get_source_and_sink(path).sink
        /\ Passes(result) <=>
              \A a \in Intermediate(result) : NetFlowOf(result.transfers, a) = 0
        /\ ~Passes(result) =>
              /\ assert_no_netted_flow_mismatch(result).type = "PathfindingError"
              /\ assert_no_netted_flow_mismatch(result).message = "Vertex is unbalanced"

\* a flow of 4 split into 2 and 2: nothing is dropped, yet the vertex that
\* splits it receives 3 and sends 1 + 1
C29_Witness ==
    /\ ShrinkDone /\ Passes(path) /\ NothingDropped
    /\ Len(path.transfers) = 3
    /\ ~Passes(result)
    /\ assert_no_netted_flow_mismatch(result).balance = 1

\* nothing dropped and the returned path passes
ShrunkPathPasses ==
    /\ ShrinkDone /\ Passes(path) /\ NothingDropped
    /\ Len(path.transfers) = 3
    /\ Passes(result)

\* a path that passes whose shrunk path passes with another sink
ShrunkPathHasOtherSink ==
    /\ ShrinkDone /\ Passes(path) /\ Passes(result)
    /\ get_source_and_sink(result).sink # get_source_and_sink(path).sink

----------------------------------------------------------------------------
(* Properties of TokenInfoCache                                            *)

\* the keys of the cache c
KeysOf(c) == {c.entries[i].k : i \in 1..Len(c.entries)}

\* storing key k in the cache c would take it over its capacity
WouldOverflow(c, k) == k \notin KeysOf(c) /\ Len(c.entries) + 1 > c.max_size

\* C26: a set removes an entry only if the insertion would overflow the
\* capacity, and then it removes the key inserted earliest among those
\* present; a get leaves the cache, and so the next key evicted, as it was.
C26_EvictionOnlyOnOverflow ==
    [][/\ op' = "TokenInfoCache.set" =>
             (KeysOf(cache) \ KeysOf(cache') # {} =>
                 /\ WouldOverflow(cache, lower(args'.token_address))
                 /\ KeysOf(cache) \ KeysOf(cache') = {cache.entries[1].k})
       /\ op' = "TokenInfoCache.get" => cache' = cache]_vars

\* what holds of the code: a set evicts whenever the cache is full, also when
\* its key is already there; what it evicts is the oldest key, the keys left
\* keep their order, and a new key goes last
EvictionWheneverFull ==
    [][/\ op' = "TokenInfoCache.set" =>
             LET k == lower(args'.token_address)
                 full == Len(cache.entries) >= cache.max_size
                 kept == IF full THEN Tail(cache.entries) ELSE cache.entries
             IN  /\ KeysOf(cache') = {kept[i].k : i \in 1..Len(kept)} \cup {k}
                 /\ Len(cache'.entries) <= cache.max_size
                 /\ \A i \in 1..Len(kept) :
                       kept[i].k # k => cache'.entries[i] = kept[i]
                 /\ cache_get(cache', k) = args'.info
       /\ op' = "TokenInfoCache.get" => cache' = cache]_vars

----------------------------------------------------------------------------
(* Properties of concurrent classification batches                         *)

\* C30: whatever the interleaving of the batches, the shared cache holds at
\* most max_size entries, every entry is stored under the lower-case token
\* address of its own row, and the map a batch returns has a row for every
\* distinct token owner of that batch's path.
C30_BatchesShareCacheSafely ==
    (batches # None) =>
        /\ Len(cache.entries) <= cache.max_size
        /\ \A i \in 1..Len(cache.entries) :
              /\ cache.entries[i].k = cache.entries[i].v.token
              /\ cache.entries[i].k = lower(cache.entries[i].k)
        /\ \A i, j \in 1..Len(cache.entries) :
              cache.entries[i].k = cache.entries[j].k => i = j
        /\ \A b \in BatchIds :
              batches[b].pc = "returned" =>
                 /\ UniqueAddresses(batches[b].path) \subseteq DOMAIN batches[b].token_info_map
                 /\ \A a \in UniqueAddresses(batches[b].path) :
                       batches[b].token_info_map[a].token = a

\* batch 2 ran from its lookup to its return while batch 1 was waiting for
\* its fetch: an address batch 1 did not find is in the full cache now, and
\* batch 1 is still to insert it
C30_Witness ==
    /\ batches # None
    /\ batches[1].pc = "fetching"
    /\ batches[2].pc = "returned"
    /\ Len(cache.entries) = cache.max_size
    /\ \E i \in 1..Len(batches[1].addresses_to_fetch) :
          batches[1].addresses_to_fetch[i] \in KeysOf(cache)

\* both batches have returned, and the cache has lost a row that one of them
\* returned
RowEvictedAfterReturn ==
    /\ batches # None
    /\ \A b \in BatchIds : batches[b].pc = "returned"
    /\ \E b \in BatchIds :
          \E a \in DOMAIN batches[b].token_info_map : a \notin KeysOf(cache)

====
